---- MODULE Spec2Model ----
(***************************************************************************)
(* Model of the Hyperliquid market-making bot (goushmalek/hypetest2).      *)
(*                                                                         *)
(* Part 1: the Security Gate, src/src/bot/core/security.ts                 *)
(* (SecurityManager): tiered authorization of transactions, multi-         *)
(* signature collection, the 24h expiry sweep and the hash-chained audit   *)
(* trail.                                                                  *)
(*                                                                         *)
(* JavaScript runs every handler to completion: none of the public methods *)
(* of SecurityManager changes state after its first suspension point       *)
(* (executeTransaction contains no await, so the awaits in                 *)
(* secureTransaction and signTransaction resume only after all state has   *)
(* been written).  One action therefore models one whole call.             *)
(*                                                                         *)
(* Time is Date.now() in milliseconds.  sha256 is modelled as a collision- *)
(* free constructor over the value that is hashed.                         *)
(***************************************************************************)
EXTENDS Integers, Sequences, FiniteSets, TLC

VARIABLES
    config,               \* SecurityManager.config (fixed at construction)
    isRunning,            \* SecurityManager.isRunning
    monitorInterval,      \* due time of the armed 5s interval timer, or NoTimer
    pendingTransactions,  \* Map transactionId -> transaction
    transactionHistory,   \* Array of executed / failed transactions
    auditLog,             \* Array of audit entries
    now,                  \* Date.now()
    nextId,               \* number of ids drawn from crypto.randomUUID() so far
    anomalyDetection,     \* order size / order frequency / position size samples, lastAlertTime
    lastCall,             \* the call on the gate made by the last step, and how it ended
    tampered,             \* index of the audit entry altered behind the gate's back, 0 if none
    exchangeOrders,       \* the orders the exchange accepted through api.placeOrder, in order
    activeOrders,         \* MarketMaker.activeOrders: orderId -> Order
    stopLossOrders,       \* RiskManager.stopLossOrders: positionId -> Order
    wsConnections,        \* HyperliquidAPI.wsConnections: the sockets of the pair, by id
    sockets,              \* every WebSocket created so far: readyState, handler index, messages sent
    activeWsIndex,        \* HyperliquidAPI.activeWsIndex
    reconnectTimeout,     \* HyperliquidAPI.reconnectTimeout: the retry timer it refers to is live
    orphanTimeouts,       \* live retry timers that reconnectTimeout no longer refers to
    pingInterval,         \* HyperliquidAPI.pingInterval: the 15s interval timer is armed
    lastMessageTime,      \* HyperliquidAPI.lastMessageTime
    subscriptions,        \* HyperliquidAPI.subscriptions: Set of subscription keys
    connectionRetryCount, \* HyperliquidAPI.connectionRetryCount
    connecting,           \* connectWebSocket calls suspended at their await: sockets, caller
    closeTimeouts,        \* live 5s timers set by the close handlers, per connection index
    lifecycle,            \* how the last initialize() / close() of the gateway ended
    requestQueue,         \* HyperliquidAPI.requestQueue: the callers waiting for the rate limiter
    processingQueue,      \* HyperliquidAPI.processingQueue
    processor,            \* where processRequestQueue is suspended: its await request() or its setTimeout
    sleepLeft,            \* time left on the setTimeout of processRequestQueue
    sinceRelease,         \* time since the limiter last released a request, up to requestInterval
    calls,                \* the makeRequest calls: state, retries, attempts made, last outcome, backoff delay
    lastRelease,          \* the request the limiter released last, and the time since the one before
    quote,                \* the Quoting Engine's inputs and the result of its last computation
    maker,                \* MarketMaker: isRunning, orderRefreshInterval, the passes and stop() calls in flight
    risk,                 \* RiskManager: its maps, and its handlers suspended at an await
    bot                   \* HyperliquidBot: isRunning, config, and what each component runs on

gateVars == <<config, isRunning, monitorInterval, pendingTransactions,
              transactionHistory, auditLog, now, nextId, anomalyDetection,
              lastCall, tampered>>

orderVars == <<exchangeOrders, activeOrders, stopLossOrders>>

apiVars == <<wsConnections, sockets, activeWsIndex, reconnectTimeout, orphanTimeouts,
             pingInterval, lastMessageTime, subscriptions, connectionRetryCount,
             connecting, closeTimeouts, lifecycle>>

restVars == <<requestQueue, processingQueue, processor, sleepLeft, sinceRelease,
              calls, lastRelease>>

quoteVars == <<quote>>

engineVars == <<maker, risk, bot>>

outsideGate == <<orderVars, apiVars, restVars, quoteVars, engineVars>>

outsideOrders == <<gateVars, apiVars, restVars, quoteVars, engineVars>>

vars == <<gateVars, orderVars, apiVars, restVars, quoteVars, engineVars>>

-----------------------------------------------------------------------------
(* Bounds of the model *)

MaxTx == 1        \* secureTransaction calls in one behaviour
MaxAudit == 3     \* a call that appends to the audit trail is made only below this length
MaxEvents == 1    \* gateway events are delivered only to an audit trail shorter than this
MaxOrders == 2    \* orders submitted to the exchange in one behaviour

(* Program constants *)

monitorPeriod == 5000
expirationTime == 24 * 60 * 60 * 1000
AuditLogLimit == 10000
HistoryLimit == 1000
SampleLimit == 100
MinSamples == 10
Tier1Max == 1000
Tier2Max == 10000
(* tier3.maxAmount is Number.MAX_SAFE_INTEGER; getSecurityLevel never reads  *)
(* it, and the largest integer TLC represents stands for it.                 *)
Tier3Max == 2147483647
maxOpenOrders == 10
stopLossPercentage == 5

NoTimer == -1

walletAddress == "0xWallet"
placeholderAddress == "0x0000000000000000000000000000000000000000"
cosignerAddress == "0xCosigner"

(* the callers of signTransaction; cosignerAddress is authorized by one of   *)
(* the configurations only                                                   *)
Signers == {walletAddress, placeholderAddress, cosignerAddress}

(* Inputs of secureTransaction.  A "cyclic" payload is one that               *)
(* JSON.stringify cannot serialise (a circular structure, a BigInt): it makes *)
(* the audit append inside executeTransaction throw.                          *)
Types == {"order"}
Payloads == {"plain", "cyclic"}
Values == {Tier1Max, Tier1Max + 1, Tier2Max, Tier2Max + 1}

Serialisable(data) == data # "cyclic"

(* Instants at which the clock is observed: construction, the 24h time-to-  *)
(* live exactly, the millisecond after it, and one sweep period after it.   *)
Instants ==
    {0, expirationTime, expirationTime + 1, expirationTime + monitorPeriod}

-----------------------------------------------------------------------------
(* Configurations *)

defaultLimits ==
    [tier1 |-> [maxAmount |-> Tier1Max, securityLevel |-> "low"],
     tier2 |-> [maxAmount |-> Tier2Max, securityLevel |-> "medium"],
     tier3 |-> [maxAmount |-> Tier3Max, securityLevel |-> "high"]]

(* a configuration whose bands are not in increasing order of strictness *)
invertedLimits ==
    [tier1 |-> [maxAmount |-> Tier1Max, securityLevel |-> "medium"],
     tier2 |-> [maxAmount |-> Tier2Max, securityLevel |-> "low"],
     tier3 |-> [maxAmount |-> Tier3Max, securityLevel |-> "high"]]

createDefaultSecurityConfig(address) ==
    [multiSig |-> [enable |-> TRUE,
                   requiredSignatures |-> 2,
                   authorizedAddresses |-> <<address, placeholderAddress>>],
     transactionLimits |-> defaultLimits]

(* The configurations the gate is constructed with: the default one, and    *)
(* variants of it in one setting each.                                      *)
Configs ==
    LET d == createDefaultSecurityConfig(walletAddress)
    IN  {d,
         [d EXCEPT !.multiSig.enable = FALSE],
         [d EXCEPT !.multiSig.requiredSignatures = 1],
         [d EXCEPT !.multiSig.requiredSignatures = 3,
                   !.multiSig.authorizedAddresses = <<placeholderAddress, cosignerAddress>>],
         [d EXCEPT !.transactionLimits = invertedLimits]}

Range(s) == {s[i] : i \in 1 .. Len(s)}

-----------------------------------------------------------------------------
(* Hashing *)

ZeroHash == [digest |-> "0000000000000000000000000000000000000000000000000000000000000000"]

sha256(preimage) == [digest |-> preimage]

-----------------------------------------------------------------------------
(* Audit trail *)

logToAudit(log, timestamp, action, details) ==
    LET previousHash == IF Len(log) > 0 THEN log[Len(log)].hash ELSE ZeroHash
        dataString == [timestamp |-> timestamp, action |-> action,
                       details |-> details, previousHash |-> previousHash]
        hash == sha256(dataString)
        pushed == Append(log, [timestamp |-> timestamp, action |-> action,
                               details |-> details, hash |-> hash])
    IN  IF Len(pushed) > AuditLogLimit THEN Tail(pushed) ELSE pushed

(* currentEntry.details.previousHash !== previousEntry.hash : reading a field *)
(* the details object does not have yields undefined, which differs from      *)
(* every hash.                                                                *)
PreviousHashDiffers(details, hash) ==
    IF "previousHash" \in DOMAIN details THEN details.previousHash # hash ELSE TRUE

EntryIntact(log, i) ==
    LET currentEntry == log[i]
        previousEntry == log[i - 1]
        dataString == [timestamp |-> previousEntry.timestamp,
                       action |-> previousEntry.action,
                       details |-> previousEntry.details,
                       previousHash |-> IF i > 2 THEN log[i - 2].hash ELSE ZeroHash]
        calculatedHash == sha256(dataString)
    IN  /\ ~PreviousHashDiffers(currentEntry.details, previousEntry.hash)
        /\ calculatedHash = previousEntry.hash

verifyAuditLog(log) ==
    IF Len(log) = 0 THEN TRUE
    ELSE \A i \in 2 .. Len(log) : EntryIntact(log, i)

-----------------------------------------------------------------------------
(* Classification *)

(* mutant: the band limits compared with < *)
getSecurityLevel_exclusive(cfg, value) ==
    IF value < cfg.transactionLimits.tier1.maxAmount
    THEN cfg.transactionLimits.tier1.securityLevel
    ELSE IF value < cfg.transactionLimits.tier2.maxAmount
         THEN cfg.transactionLimits.tier2.securityLevel
         ELSE cfg.transactionLimits.tier3.securityLevel

getSecurityLevel(cfg, value) ==
    IF value <= cfg.transactionLimits.tier1.maxAmount
    THEN cfg.transactionLimits.tier1.securityLevel
    ELSE IF value <= cfg.transactionLimits.tier2.maxAmount
         THEN cfg.transactionLimits.tier2.securityLevel
         ELSE cfg.transactionLimits.tier3.securityLevel

-----------------------------------------------------------------------------
(* The gate's collections, passed through the operations as one record g:    *)
(* [pendingTransactions, transactionHistory, auditLog].                      *)

SetStatus(pending, id, status) ==
    IF id \in DOMAIN pending
    THEN [pending EXCEPT ![id].status = status]
    ELSE pending

(* executeTransaction: the try block marks the transaction executed, appends *)
(* the audit entry (whose JSON.stringify covers the payload), then the       *)
(* history entry; the catch block marks it rejected, records the failure and *)
(* rethrows.  Result: the collections and whether the call threw.            *)
executeTransaction(cfg, g, id, type, data, value, t) ==
    LET marked == SetStatus(g.pendingTransactions, id, "executed")
    IN  IF Serialisable(data)
        THEN LET log == logToAudit(g.auditLog, t, "transaction_executed",
                                   [transactionId |-> id, type |-> type,
                                    value |-> value, data |-> data])
                 pushed == Append(g.transactionHistory,
                                  [id |-> id, type |-> type, data |-> data,
                                   value |-> value, timestamp |-> t,
                                   status |-> "executed",
                                   securityLevel |-> getSecurityLevel(cfg, value)])
                 history == IF Len(pushed) > HistoryLimit THEN Tail(pushed) ELSE pushed
             IN  [g |-> [pendingTransactions |-> marked,
                         transactionHistory |-> history,
                         auditLog |-> log],
                  threw |-> FALSE]
        ELSE LET log == logToAudit(g.auditLog, t, "transaction_failed",
                                   [transactionId |-> id, type |-> type,
                                    value |-> value, error |-> "TypeError"])
                 history == Append(g.transactionHistory,
                                   [id |-> id, type |-> type, data |-> data,
                                    value |-> value, timestamp |-> t,
                                    status |-> "failed",
                                    securityLevel |-> getSecurityLevel(cfg, value)])
             IN  [g |-> [pendingTransactions |-> SetStatus(marked, id, "rejected"),
                         transactionHistory |-> history,
                         auditLog |-> log],
                  threw |-> TRUE]

(* mutant: the authorization test left out *)
IsAuthorized_anyone(cfg, signerAddress) == TRUE

IsAuthorized(cfg, signerAddress) ==
    \/ signerAddress \in Range(cfg.multiSig.authorizedAddresses)
    \/ signerAddress = walletAddress

(* mutant: the threshold compared with > *)
HasEnoughSignatures_strict(cfg, size) == size > cfg.multiSig.requiredSignatures

(* mutant: the threshold reached one signature early *)
HasEnoughSignatures_early(cfg, size) == size + 1 >= cfg.multiSig.requiredSignatures

(* transaction.signatures.size >= this.config.multiSig.requiredSignatures *)
HasEnoughSignatures(cfg, size) == size >= cfg.multiSig.requiredSignatures

(* signTransaction.  outcome: "notPending" and "notAuthorized" are the two   *)
(* errors thrown before anything is written, "execFailed" is the error       *)
(* rethrown by executeTransaction, "returned" a normal return of isReady.    *)
signTransaction(cfg, g, transactionId, signerAddress, t) ==
    IF \/ transactionId \notin DOMAIN g.pendingTransactions
       \/ g.pendingTransactions[transactionId].status # "pending"
    THEN [g |-> g, outcome |-> "notPending", isReady |-> FALSE]
    ELSE IF ~IsAuthorized(cfg, signerAddress)
    THEN [g |-> g, outcome |-> "notAuthorized", isReady |-> FALSE]
    ELSE
        LET transaction == g.pendingTransactions[transactionId]
            signature == sha256(<<transactionId, signerAddress, t>>)
            old == transaction.signatures
            signatures == [a \in DOMAIN old \cup {signerAddress} |->
                              IF a = signerAddress THEN signature ELSE old[a]]
            signed == [g.pendingTransactions EXCEPT
                          ![transactionId].signatures = signatures]
            log == logToAudit(g.auditLog, t, "transaction_signed",
                              [transactionId |-> transactionId,
                               signer |-> signerAddress,
                               signatureCount |-> Cardinality(DOMAIN signatures),
                               requiredSignatures |-> cfg.multiSig.requiredSignatures])
            isReady == HasEnoughSignatures(cfg, Cardinality(DOMAIN signatures))
            g1 == [g EXCEPT !.pendingTransactions = signed, !.auditLog = log]
        IN  IF isReady
            THEN LET approved == [g1 EXCEPT !.pendingTransactions =
                                     SetStatus(signed, transactionId, "approved")]
                     run == executeTransaction(cfg, approved, transactionId,
                                               transaction.type, transaction.data,
                                               transaction.value, t)
                 IN  [g |-> run.g,
                      outcome |-> IF run.threw THEN "execFailed" ELSE "returned",
                      isReady |-> TRUE]
            ELSE [g |-> g1, outcome |-> "returned", isReady |-> FALSE]

(* secureTransaction, given the id drawn from crypto.randomUUID().           *)
secureTransaction(cfg, g, id, type, data, value, t) ==
    LET securityLevel == getSecurityLevel(cfg, value)
        g0 == [g EXCEPT !.auditLog =
                  logToAudit(g.auditLog, t, "transaction_created",
                             [transactionId |-> id, type |-> type,
                              value |-> value, securityLevel |-> securityLevel])]
    IN  IF securityLevel = "low"
        THEN LET run == executeTransaction(cfg, g0, id, type, data, value, t)
             IN  [g |-> run.g,
                  outcome |-> IF run.threw THEN "execFailed" ELSE "returned"]
        ELSE IF cfg.multiSig.enable /\ securityLevel # "low"
        THEN LET created == [type |-> type, data |-> data, value |-> value,
                             timestamp |-> t, signatures |-> <<>>,
                             status |-> "pending"]
                 old == g0.pendingTransactions
                 registered == [g0 EXCEPT !.pendingTransactions =
                                   [i \in DOMAIN old \cup {id} |->
                                       IF i = id THEN created ELSE old[i]]]
                 sig == signTransaction(cfg, registered, id, walletAddress, t)
             IN  [g |-> sig.g, outcome |-> sig.outcome]
        ELSE LET run == executeTransaction(cfg, g0, id, type, data, value, t)
             IN  [g |-> run.g,
                  outcome |-> IF run.threw THEN "execFailed" ELSE "returned"]

(* mutant: the sweep does not look at the status *)
IsExpired_anyStatus(transaction, t) == t - transaction.timestamp > expirationTime

(* the test of the sweep on one transaction *)
IsExpired(transaction, t) ==
    /\ transaction.status = "pending"
    /\ t - transaction.timestamp > expirationTime

(* checkExpiredTransactions: the Map is walked in insertion order, which is  *)
(* the order of the ids.                                                     *)
RECURSIVE ExpireFrom(_, _, _, _)
ExpireFrom(g, id, last, t) ==
    IF id > last THEN g
    ELSE IF /\ id \in DOMAIN g.pendingTransactions
            /\ IsExpired(g.pendingTransactions[id], t)
         THEN LET transaction == g.pendingTransactions[id]
                  log == logToAudit(g.auditLog, t, "transaction_expired",
                                    [transactionId |-> id,
                                     type |-> transaction.type,
                                     value |-> transaction.value,
                                     age |-> [ms |-> t - transaction.timestamp,
                                              perHour |-> 60 * 60 * 1000]])
              IN  ExpireFrom([g EXCEPT !.pendingTransactions =
                                  SetStatus(g.pendingTransactions, id, "expired"),
                                !.auditLog = log],
                             id + 1, last, t)
         ELSE ExpireFrom(g, id + 1, last, t)

checkExpiredTransactions(g, last, t) == ExpireFrom(g, 1, last, t)

-----------------------------------------------------------------------------
(* Anomaly sampling *)

OrderEvents ==
    {[id |-> "o1", symbol |-> "BTC", side |-> "buy", type |-> "limit",
      size |-> 2, price |-> 100, status |-> st] : st \in {"new", "filled"}}

PositionEvents ==
    {[symbol |-> "BTC", size |-> -2, entryPrice |-> 100, markPrice |-> 101,
      liquidationPrice |-> 150, unrealizedPnl |-> -2, leverage |-> 3]}

Abs(n) == IF n < 0 THEN -n ELSE n

Capped(samples) == IF Len(samples) > SampleLimit THEN Tail(samples) ELSE samples

(* detectAnomalies.  The three z-score tests are real-valued statistics; the *)
(* model keeps the guards in front of them and takes their joint verdict     *)
(* (anomaly) as a nondeterministic input.                                    *)
detectAnomalies(log, ad, t, anomaly) ==
    IF \/ Len(ad.orderSizeHistory) < MinSamples
       \/ Len(ad.orderFrequencyHistory) < MinSamples
    THEN [auditLog |-> log, anomalyDetection |-> ad]
    ELSE IF t - ad.lastAlertTime < 10 * 60 * 1000
    THEN [auditLog |-> log, anomalyDetection |-> ad]
    ELSE IF anomaly
    THEN [auditLog |-> logToAudit(log, t, "anomaly_detected", [timestamp |-> t]),
          anomalyDetection |-> [ad EXCEPT !.lastAlertTime = t]]
    ELSE [auditLog |-> log, anomalyDetection |-> ad]

-----------------------------------------------------------------------------
(* State and actions of the gate *)

gate == [pendingTransactions |-> pendingTransactions,
         transactionHistory |-> transactionHistory,
         auditLog |-> auditLog]

Install(g) ==
    /\ pendingTransactions' = g.pendingTransactions
    /\ transactionHistory' = g.transactionHistory
    /\ auditLog' = g.auditLog

Called(op, args, outcome) == [op |-> op, args |-> args, outcome |-> outcome]

NoCall == Called("none", <<>>, "returned")

(* createDefaultMarketMakingConfig, createDefaultRiskConfig and              *)
(* createDefaultOptimizationConfig, in the settings the Orchestrator reads   *)
(* or replaces                                                               *)
createDefaultMarketMakingConfig ==
    [enabled |-> TRUE,
     orders |-> [maxOpenOrders |-> 10, orderRefreshInterval |-> 5000]]

createDefaultRiskConfig ==
    [portfolioLimit |-> [maxTotalExposure |-> 100000, maxDrawdown |-> 10],
     stopLoss |-> [enable |-> TRUE, percentage |-> 5, trailingEnable |-> TRUE,
                   trailingPercentage |-> 2],
     takeProfit |-> [enable |-> TRUE, percentage |-> 10]]

createDefaultOptimizationConfig == [enable |-> TRUE, optimizationInterval |-> 24]

(* createDefaultBotConfig *)
createDefaultBotConfig(address) ==
    [wallet |-> [address |-> address],
     marketMaking |-> [enabled |-> TRUE,
                       orders |-> [maxOpenOrders |-> 10, orderRefreshInterval |-> 5000]],
     risk |-> [portfolioLimit |-> [maxTotalExposure |-> 100000, maxDrawdown |-> 10],
               stopLoss |-> [enable |-> TRUE, percentage |-> 5, trailingEnable |-> TRUE,
                             trailingPercentage |-> 2],
               takeProfit |-> [enable |-> TRUE, percentage |-> 10]],
     optimization |-> [enable |-> TRUE, optimizationInterval |-> 24],
     security |-> [multiSig |-> [enable |-> TRUE,
                                 requiredSignatures |-> 2,
                                 authorizedAddresses |-> <<address, placeholderAddress>>],
                   transactionLimits |->
                       [tier1 |-> [maxAmount |-> Tier1Max, securityLevel |-> "low"],
                        tier2 |-> [maxAmount |-> Tier2Max, securityLevel |-> "medium"],
                        tier3 |-> [maxAmount |-> Tier3Max, securityLevel |-> "high"]]]]

(* the components in the order HyperliquidBot.start starts them, and in the  *)
(* order HyperliquidBot.stop stops them                                      *)
StartOrder == <<"security", "risk", "analytics", "marketMaker", "optimizer">>
StopOrder == <<"optimizer", "marketMaker", "analytics", "risk", "security">>

(* Optimizer.runGeneticAlgorithm before it is called, for a configuration   *)
(* with the given geneticAlgorithm.populationSize and generations.  The      *)
(* population and the parents are kept by their lengths; i is the loop       *)
(* counter of selectParents and createOffspring, idx1 and idx2 the two       *)
(* draws of the current iteration.                                           *)
Genetic(populationSize, generations) ==
    [pc |-> "idle", populationSize |-> populationSize, generations |-> generations,
     gen |-> 0, population |-> 0, parents |-> 0, offspring |-> 0,
     i |-> 0, idx1 |-> 0, idx2 |-> 0]

(* HyperliquidBot after construction.  A component is its running flag, its  *)
(* interval timer and the configuration its factory gave it; botConfig is    *)
(* the Optimizer's copy of the bot configuration.  frames are the async      *)
(* functions of the bot that are suspended at an await, innermost last;      *)
(* started, stopped and last record, for the properties, the component       *)
(* starts and stops of the latest start() and stop() and the latest public   *)
(* call.                                                                     *)
HyperliquidBot(botConfig) ==
    [config |-> botConfig,
     isRunning |-> FALSE,
     healthCheckInterval |-> FALSE,
     encryptionKey |-> FALSE,
     walletReady |-> FALSE,
     components |-> [c \in Range(StartOrder) |-> [isRunning |-> FALSE, interval |-> FALSE]],
     held |-> [marketMaker |-> createDefaultMarketMakingConfig,
               risk |-> createDefaultRiskConfig,
               optimizer |-> createDefaultOptimizationConfig,
               security |-> createDefaultSecurityConfig(botConfig.wallet.address)],
     botConfig |-> botConfig,
     analytics |-> [filledOrders |-> <<>>, orderGroups |-> <<>>,
                    trades |-> [winCount |-> 0, lossCount |-> 0,
                                totalProfit |-> 0, totalLoss |-> 0]],
     genetic |-> Genetic(20, 5),
     frames |-> <<>>,
     started |-> <<>>,
     stopped |-> <<>>,
     calls |-> 0,
     last |-> [op |-> "none", partial |-> <<>>, before |-> botConfig, installed |-> <<>>,
               wasRunning |-> FALSE, result |-> <<>>, restarted |-> FALSE]]

(* the MarketMaker after construction with a configuration whose            *)
(* orders.maxOpenOrders is cap                                               *)
MarketMaker(cap) ==
    [isRunning |-> FALSE, orderRefreshInterval |-> FALSE,
     passes |-> <<>>, begun |-> 0, stopping |-> <<>>,
     cancelled |-> {}, stopped |-> FALSE,
     lastPlaced |-> [submitted |-> 0, unreplaced |-> {}],
     events |-> 0, terminal |-> {}, maxOpenOrders |-> cap]

(* the RiskManager after construction; budget is the number of events and    *)
(* timer ticks the model delivers to it                                      *)
FreshRisk(budget) ==
    [isRunning |-> FALSE, monitorInterval |-> FALSE,
     positions |-> <<>>, marketData |-> <<>>, takeProfitOrders |-> <<>>,
     circuitBreakers |-> <<>>, calls |-> <<>>, cancelled |-> {},
     events |-> 0, budget |-> budget,
     stops |-> <<>>, triggers |-> <<>>,
     last |-> [handler |-> "none", prev |-> <<>>, price |-> <<>>,
               stop |-> <<>>, begun |-> <<>>]]

Fresh ==
    /\ isRunning = FALSE
    /\ monitorInterval = NoTimer
    /\ pendingTransactions = <<>>
    /\ transactionHistory = <<>>
    /\ auditLog = <<>>
    /\ nextId = 0
    /\ anomalyDetection = [orderSizeHistory |-> <<>>,
                           orderFrequencyHistory |-> <<>>,
                           positionSizeHistory |-> <<>>,
                           lastAlertTime |-> 0]
    /\ lastCall = NoCall
    /\ tampered = 0
    /\ exchangeOrders = <<>>
    /\ activeOrders = <<>>
    /\ stopLossOrders = <<>>
    /\ wsConnections = <<>>
    /\ sockets = <<>>
    /\ activeWsIndex = 0
    /\ reconnectTimeout = FALSE
    /\ orphanTimeouts = 0
    /\ pingInterval = FALSE
    /\ lastMessageTime = 0
    /\ subscriptions = {}
    /\ connectionRetryCount = 0
    /\ connecting = {}
    /\ closeTimeouts = [index \in {0, 1} |-> 0]
    /\ lifecycle = "new"
    /\ requestQueue = <<>>
    /\ processingQueue = FALSE
    /\ processor = "idle"
    /\ sleepLeft = 0
    /\ sinceRelease = 0
    /\ calls = <<>>
    /\ lastRelease = [id |-> 0, first |-> TRUE, gap |-> 0]

Init ==
    /\ config \in Configs
    /\ now = 0
    /\ Fresh
    /\ maker = MarketMaker(maxOpenOrders)
    /\ risk = FreshRisk(0)
    /\ bot = HyperliquidBot(createDefaultBotConfig(walletAddress))
    /\ quote = <<>>

Start ==
    /\ IF isRunning
       THEN UNCHANGED <<isRunning, monitorInterval>>
       ELSE /\ monitorInterval' = now + monitorPeriod
            /\ isRunning' = TRUE
    /\ UNCHANGED <<config, pendingTransactions, transactionHistory, auditLog,
                   now, nextId, anomalyDetection, tampered>>
    /\ UNCHANGED outsideGate
    /\ lastCall' = NoCall

Stop ==
    /\ IF ~isRunning
       THEN UNCHANGED <<isRunning, monitorInterval>>
       ELSE /\ monitorInterval' = NoTimer
            /\ isRunning' = FALSE
    /\ UNCHANGED <<config, pendingTransactions, transactionHistory, auditLog,
                   now, nextId, anomalyDetection, tampered>>
    /\ UNCHANGED outsideGate
    /\ lastCall' = NoCall

(* The interval timer fires: monitorSecurity. *)
MonitorSecurity ==
    /\ monitorInterval # NoTimer
    /\ monitorInterval = now
    /\ monitorInterval' = now + monitorPeriod
    /\ IF ~isRunning
       THEN UNCHANGED <<pendingTransactions, transactionHistory, auditLog,
                        anomalyDetection>>
       ELSE \E anomaly \in BOOLEAN :
               LET swept == checkExpiredTransactions(gate, nextId, now)
                   seen == detectAnomalies(swept.auditLog, anomalyDetection, now, anomaly)
               IN  /\ Install([swept EXCEPT !.auditLog = seen.auditLog])
                   /\ anomalyDetection' = seen.anomalyDetection
    /\ UNCHANGED <<config, isRunning, now, nextId, tampered>>
    /\ UNCHANGED outsideGate
    /\ lastCall' = NoCall

(* The clock moves to a later instant.  A timer that is due fires before the *)
(* clock moves on, and the sweeps between the two instants are skipped only  *)
(* when they would change nothing.                                           *)
LastDueBefore(t) == monitorInterval + ((t - 1 - monitorInterval) \div monitorPeriod) * monitorPeriod

FirstDueFrom(t) ==
    monitorInterval + ((t - monitorInterval + monitorPeriod - 1) \div monitorPeriod) * monitorPeriod

Advance(t) ==
    /\ t > now
    /\ IF monitorInterval = NoTimer \/ monitorInterval >= t
       THEN /\ monitorInterval = NoTimer \/ monitorInterval > now
            /\ UNCHANGED monitorInterval
       ELSE /\ monitorInterval > now
            /\ checkExpiredTransactions(gate, nextId, LastDueBefore(t)) = gate
            /\ Len(anomalyDetection.orderSizeHistory) < MinSamples
            /\ monitorInterval' = FirstDueFrom(t)
    /\ now' = t
    /\ UNCHANGED <<config, isRunning, pendingTransactions, transactionHistory,
                   auditLog, nextId, anomalyDetection, tampered>>
    /\ UNCHANGED outsideGate
    /\ lastCall' = NoCall

SecureTransaction(type, data, value) ==
    /\ nextId < MaxTx
    /\ Len(auditLog) < MaxAudit
    /\ LET id == nextId + 1
           run == secureTransaction(config, gate, id, type, data, value, now)
       IN  /\ Install(run.g)
           /\ lastCall' = Called("secureTransaction", <<id, type, data, value>>, run.outcome)
    /\ nextId' = nextId + 1
    /\ UNCHANGED <<config, isRunning, monitorInterval, now, anomalyDetection, tampered>>
    /\ UNCHANGED outsideGate

SignTransaction(transactionId, signerAddress) ==
    /\ LET run == signTransaction(config, gate, transactionId, signerAddress, now)
       IN  /\ Len(auditLog) < MaxAudit \/ run.g = gate
           /\ Install(run.g)
           /\ lastCall' = Called("signTransaction", <<transactionId, signerAddress>>,
                                 run.outcome)
    /\ UNCHANGED <<config, isRunning, monitorInterval, now, nextId,
                   anomalyDetection, tampered>>
    /\ UNCHANGED outsideGate

(* api "order" event: monitorOrderActivity *)
MonitorOrderActivity(order) ==
    /\ isRunning
    /\ Len(auditLog) < MaxEvents
    /\ LET sizes == IF order.status \in {"filled", "partiallyFilled"}
                    THEN Capped(Append(anomalyDetection.orderSizeHistory, order.size))
                    ELSE anomalyDetection.orderSizeHistory
           stamped == Append(anomalyDetection.orderFrequencyHistory, [timestamp |-> now])
           recent == SelectSeq(stamped, LAMBDA e : e.timestamp >= now - 60 * 60 * 1000)
       IN  anomalyDetection' = [anomalyDetection EXCEPT
                                   !.orderSizeHistory = sizes,
                                   !.orderFrequencyHistory = recent]
    /\ auditLog' = logToAudit(auditLog, now, "order_activity",
                              [orderId |-> order.id, symbol |-> order.symbol,
                               side |-> order.side, type |-> order.type,
                               size |-> order.size, price |-> order.price,
                               status |-> order.status])
    /\ UNCHANGED <<config, isRunning, monitorInterval, pendingTransactions,
                   transactionHistory, now, nextId, tampered>>
    /\ UNCHANGED outsideGate
    /\ lastCall' = NoCall

(* api "position" event: monitorPositionActivity *)
MonitorPositionActivity(position) ==
    /\ isRunning
    /\ Len(auditLog) < MaxEvents
    /\ LET old == anomalyDetection.positionSizeHistory
           symbol == position.symbol
           history == IF symbol \in DOMAIN old THEN old[symbol] ELSE <<>>
           pushed == Capped(Append(history, Abs(position.size)))
       IN  anomalyDetection' = [anomalyDetection EXCEPT !.positionSizeHistory =
                                      [sy \in DOMAIN old \cup {symbol} |->
                                          IF sy = symbol THEN pushed ELSE old[sy]]]
    /\ auditLog' = logToAudit(auditLog, now, "position_update",
                              [symbol |-> position.symbol, size |-> position.size,
                               entryPrice |-> position.entryPrice,
                               markPrice |-> position.markPrice,
                               liquidationPrice |-> position.liquidationPrice,
                               unrealizedPnl |-> position.unrealizedPnl,
                               leverage |-> position.leverage])
    /\ UNCHANGED <<config, isRunning, monitorInterval, pendingTransactions,
                   transactionHistory, now, nextId, tampered>>
    /\ UNCHANGED outsideGate
    /\ lastCall' = NoCall

Next ==
    \/ Start
    \/ Stop
    \/ MonitorSecurity
    \/ \E t \in Instants : Advance(t)
    \/ \E type \in Types, data \in Payloads, value \in Values :
          SecureTransaction(type, data, value)
    \/ \E id \in 1 .. MaxTx, signer \in Signers : SignTransaction(id, signer)

(* The gate driven by its callers, the clock and its own timer. *)
Spec == Init /\ [][Next]_vars

(* The same with the gateway delivering order and position events. *)
NextGateway ==
    \/ Next
    \/ \E order \in OrderEvents : MonitorOrderActivity(order)
    \/ \E position \in PositionEvents : MonitorPositionActivity(position)

SpecGateway == Init /\ [][NextGateway]_vars

(* Somebody with access to the stored trail alters one entry, once: its      *)
(* details or its hash.                                                      *)
Alterations == {"details", "hash"}

Tamper(i, what) ==
    /\ tampered = 0
    /\ i \in 1 .. Len(auditLog)
    /\ auditLog' = IF what = "details"
                   THEN [auditLog EXCEPT ![i].details = [altered |-> @]]
                   ELSE [auditLog EXCEPT ![i].hash = sha256([altered |-> @])]
    /\ tampered' = i
    /\ lastCall' = NoCall
    /\ UNCHANGED <<config, isRunning, monitorInterval, pendingTransactions,
                   transactionHistory, now, nextId, anomalyDetection>>
    /\ UNCHANGED outsideGate

NextTamper ==
    \/ NextGateway
    \/ \E i \in 1 .. MaxAudit, what \in Alterations : Tamper(i, what)

SpecTamper == Init /\ [][NextTamper]_vars

-----------------------------------------------------------------------------
(* Part 2: order submission.  The Quoting Engine (MarketMaker) and the Risk  *)
(* Engine (RiskManager) submit orders with api.placeOrder.  Prices are in    *)
(* cents, sizes in thousandths.  The REST call is answered within the step:  *)
(* accepted, or failed after its retries.                                    *)

Symbols == {"BTC-USDT"}
Sides == {"buy", "sell"}
QuotePrices == {10000, 10200}
QuoteSizes == {1, 10}
Positions ==
    {[symbol |-> "BTC-USDT", size |-> sz, entryPrice |-> 10001] : sz \in {-20, 20}}

(* api.placeOrder answering with the order the exchange created *)
placeOrder(orders, request, t) ==
    Append(orders, [id |-> Len(orders) + 1, request |-> request, submittedAt |-> t])

Put(map, key, value) ==
    [k \in DOMAIN map \cup {key} |-> IF k = key THEN value ELSE map[k]]

(* parseFloat((cents / 100).toFixed(2)), for a price given in hundredths of a cent *)
ToFixed2(hundredths) == (hundredths + 50) \div 100

(* MarketMaker.placeLimitOrder *)
PlaceLimitOrder(symbol, side, price, size, accepted) ==
    /\ Len(exchangeOrders) < MaxOrders
    /\ LET symbolOrders == {id \in DOMAIN activeOrders : activeOrders[id].symbol = symbol}
           request == [symbol |-> symbol, side |-> side, type |-> "limit",
                       price |-> price, size |-> size, clientOrderId |-> "mm"]
       IN  IF Cardinality(symbolOrders) >= maxOpenOrders \/ ~accepted
           THEN UNCHANGED <<exchangeOrders, activeOrders>>
           ELSE /\ exchangeOrders' = placeOrder(exchangeOrders, request, now)
                /\ activeOrders' = Put(activeOrders, Len(exchangeOrders) + 1,
                                       [id |-> Len(exchangeOrders) + 1, symbol |-> symbol,
                                        side |-> side, type |-> "limit",
                                        price |-> price, size |-> size])
    /\ UNCHANGED stopLossOrders
    /\ UNCHANGED outsideOrders

(* RiskManager.setupStopLoss *)
SetupStopLoss(position, accepted) ==
    /\ Len(exchangeOrders) < MaxOrders
    /\ LET isLong == position.size > 0
           positionId == <<position.symbol, IF isLong THEN "long" ELSE "short">>
           stopPrice == IF isLong
                        THEN ToFixed2(position.entryPrice * (100 - stopLossPercentage))
                        ELSE ToFixed2(position.entryPrice * (100 + stopLossPercentage))
           side == IF isLong THEN "sell" ELSE "buy"
           size == Abs(position.size)
           request == [symbol |-> position.symbol, side |-> side, type |-> "stopMarket",
                       price |-> stopPrice, size |-> size, clientOrderId |-> "sl"]
       IN  IF ~accepted
           THEN UNCHANGED <<exchangeOrders, stopLossOrders>>
           ELSE /\ exchangeOrders' = placeOrder(exchangeOrders, request, now)
                /\ stopLossOrders' = Put(stopLossOrders, positionId,
                                         [id |-> Len(exchangeOrders) + 1,
                                          symbol |-> position.symbol, side |-> side,
                                          type |-> "stopMarket", price |-> stopPrice,
                                          size |-> size])
    /\ UNCHANGED activeOrders
    /\ UNCHANGED outsideOrders

(* The two engines submitting orders next to a gate that is being called. *)
NextOrders ==
    \/ \E type \in Types, data \in Payloads, value \in Values :
          SecureTransaction(type, data, value)
    \/ \E id \in 1 .. MaxTx, signer \in Signers : SignTransaction(id, signer)
    \/ \E symbol \in Symbols, side \in Sides, price \in QuotePrices,
          size \in QuoteSizes, accepted \in BOOLEAN :
          PlaceLimitOrder(symbol, side, price, size, accepted)
    \/ \E position \in Positions, accepted \in BOOLEAN : SetupStopLoss(position, accepted)

SpecOrders == Init /\ [][NextOrders]_vars

-----------------------------------------------------------------------------
(* Properties of the Security Gate *)

(* the identities whose signature counts: the configured ones and the local one *)
AuthorizedIdentities == Range(config.multiSig.authorizedAddresses) \cup {walletAddress}

(* the band a value falls in, as the design states it *)
LevelOf(value) ==
    IF value <= config.transactionLimits.tier1.maxAmount
    THEN config.transactionLimits.tier1.securityLevel
    ELSE IF value <= config.transactionLimits.tier2.maxAmount
         THEN config.transactionLimits.tier2.securityLevel
         ELSE config.transactionLimits.tier3.securityLevel

Signed(p, id) == DOMAIN p[id].signatures

IsSignStep(id) ==
    /\ lastCall'.op = "signTransaction"
    /\ lastCall'.args[1] = id

IsSecureStep == lastCall'.op = "secureTransaction"

(* a medium-tier transaction under multi-signature with a threshold of 2 *)
MediumOfTwo(id) ==
    /\ config.multiSig.enable
    /\ config.multiSig.requiredSignatures = 2
    /\ id \in DOMAIN pendingTransactions'
    /\ LevelOf(pendingTransactions'[id].value) = "medium"

(* the call of this step has recorded a signature on the transaction, which *)
(* leaves it with one signature, the local one                              *)
OneSignatureAfter(id) ==
    /\ IsSecureStep \/ IsSignStep(id)
    /\ lastCall'.args[1] = id
    /\ lastCall'.outcome = "returned"
    /\ MediumOfTwo(id)
    /\ Signed(pendingTransactions', id) = {walletAddress}

(* this step is the signTransaction call that records the second signature *)
SecondSignature(id) ==
    /\ IsSignStep(id)
    /\ MediumOfTwo(id)
    /\ id \in DOMAIN pendingTransactions
    /\ pendingTransactions[id].status = "pending"
    /\ Cardinality(Signed(pendingTransactions, id)) = 1
    /\ Cardinality(Signed(pendingTransactions', id)) = 2
    /\ Signed(pendingTransactions', id) \subseteq AuthorizedIdentities

(* C1 as stated: with requiredSignatures = 2 and multi-signature enabled, a   *)
(* medium-tier transaction is pending after the call that leaves it with     *)
(* exactly one signature (the local auto-signature), and the signTransaction *)
(* call that records the second signature, from a different authorized       *)
(* identity, leaves it executed.                                             *)
C1_ExecutedOnSecondSignature ==
    [][\A id \in 1 .. MaxTx :
          /\ OneSignatureAfter(id) => pendingTransactions'[id].status = "pending"
          /\ SecondSignature(id) => pendingTransactions'[id].status = "executed"]_vars

(* C1 amended: as C1, but the call that records the second signature leaves  *)
(* the transaction executed when executing it does not throw, and rejected   *)
(* (the call rethrowing the error) when it throws, which is when the payload *)
(* cannot be serialised for the audit entry.                                 *)
C1_ExecutedOrRejectedOnSecondSignature ==
    [][\A id \in 1 .. MaxTx :
          /\ OneSignatureAfter(id) => pendingTransactions'[id].status = "pending"
          /\ SecondSignature(id) =>
                IF Serialisable(pendingTransactions[id].data)
                THEN /\ pendingTransactions'[id].status = "executed"
                     /\ lastCall'.outcome = "returned"
                ELSE /\ pendingTransactions'[id].status = "rejected"
                     /\ lastCall'.outcome = "execFailed"]_vars

(* C1 witness: the second signature has just been recorded on a medium-tier  *)
(* transaction of threshold 2, and the transaction is executed.              *)
C1_Witness ==
    /\ config.multiSig.enable
    /\ config.multiSig.requiredSignatures = 2
    /\ lastCall.op = "signTransaction"
    /\ lastCall.outcome = "returned"
    /\ \E id \in DOMAIN pendingTransactions :
          /\ lastCall.args = <<id, placeholderAddress>>
          /\ LevelOf(pendingTransactions[id].value) = "medium"
          /\ Signed(pendingTransactions, id) = {walletAddress, placeholderAddress}
          /\ pendingTransactions[id].status = "executed"

(* C2: a signTransaction call whose signer is not an authorized identity     *)
(* ends with an error and leaves every transaction -- signature set,         *)
(* signature count and status -- as it was.                                  *)
C2_UnauthorizedSignerRejected ==
    [][(/\ lastCall'.op = "signTransaction"
        /\ lastCall'.args[2] \notin AuthorizedIdentities)
       => /\ lastCall'.outcome \in {"notAuthorized", "notPending"}
          /\ pendingTransactions' = pendingTransactions]_vars

(* C2 witness: an unauthorized signer has just been refused on a pending     *)
(* transaction.                                                              *)
C2_Witness ==
    /\ lastCall.op = "signTransaction"
    /\ lastCall.outcome = "notAuthorized"
    /\ lastCall.args[2] \notin AuthorizedIdentities
    /\ lastCall.args[1] \in DOMAIN pendingTransactions
    /\ pendingTransactions[lastCall.args[1]].status = "pending"

(* the executed entries of the history for medium and high transactions *)
ExecutedGuarded ==
    {i \in 1 .. Len(transactionHistory) :
        /\ transactionHistory[i].status = "executed"
        /\ LevelOf(transactionHistory[i].value) \in {"medium", "high"}}

EnoughAuthorizedSignatures(id) ==
    /\ id \in DOMAIN pendingTransactions
    /\ Cardinality(Signed(pendingTransactions, id) \cap AuthorizedIdentities)
          >= config.multiSig.requiredSignatures

(* C3: with multi-signature enabled, every medium or high transaction that   *)
(* has been executed holds signatures of at least requiredSignatures         *)
(* distinct authorized identities; and a signTransaction call by an identity *)
(* that has already signed leaves the number of signatures as it was.        *)
C3_ExecutedOnlyWithThreshold ==
    /\ [](config.multiSig.enable =>
            /\ \A i \in ExecutedGuarded : EnoughAuthorizedSignatures(transactionHistory[i].id)
            /\ \A id \in DOMAIN pendingTransactions :
                  pendingTransactions[id].status = "executed" => EnoughAuthorizedSignatures(id))
    /\ [][\A id \in DOMAIN pendingTransactions :
             (IsSignStep(id) /\ lastCall'.args[2] \in Signed(pendingTransactions, id))
             => Signed(pendingTransactions', id) = Signed(pendingTransactions, id)]_vars

(* C3 witness: a medium or high transaction was executed under a threshold   *)
(* of at least 2.                                                            *)
C3_Witness ==
    /\ config.multiSig.enable
    /\ config.multiSig.requiredSignatures >= 2
    /\ \E i \in ExecutedGuarded :
          Cardinality(Signed(pendingTransactions, transactionHistory[i].id)) >= 2

Terminal == {"executed", "rejected", "expired"}

(* C4: a registered transaction stays registered; its status changes only   *)
(* from pending, and then to executed (through approved, within one           *)
(* signTransaction call), rejected or expired; expired is set by the sweep    *)
(* only; a transaction that is executed, rejected or expired is changed by    *)
(* no call and no sweep, in status or in signatures.                          *)
C4_StatusMachine ==
    [][\A id \in DOMAIN pendingTransactions :
          /\ id \in DOMAIN pendingTransactions'
          /\ pendingTransactions[id].status \in Terminal
                => pendingTransactions'[id] = pendingTransactions[id]
          /\ pendingTransactions'[id].status # pendingTransactions[id].status
                => /\ pendingTransactions[id].status = "pending"
                   /\ pendingTransactions'[id].status \in Terminal
                   /\ pendingTransactions'[id].status = "expired" <=> lastCall' = NoCall
                   /\ pendingTransactions'[id].status = "executed"
                         => IsSignStep(id) /\ lastCall'.outcome = "returned"
                   /\ pendingTransactions'[id].status = "rejected"
                         => IsSignStep(id) /\ lastCall'.outcome = "execFailed"]_vars

(* C4 witness: a signature has just been refused on a transaction that is    *)
(* executed, rejected or expired, by an identity that may sign.              *)
C4_Witness ==
    /\ lastCall.op = "signTransaction"
    /\ lastCall.outcome = "notPending"
    /\ lastCall.args[2] \in AuthorizedIdentities
    /\ lastCall.args[1] \in DOMAIN pendingTransactions
    /\ pendingTransactions[lastCall.args[1]].status \in Terminal

SignedAt(signature) == signature.digest[3]

(* C6 as stated, its safety half: no signature is recorded on a transaction  *)
(* more than 24h after its creation, and none is executed that late.         *)
C6_NoSignatureAfterExpiry ==
    /\ \A id \in DOMAIN pendingTransactions :
          \A signer \in Signed(pendingTransactions, id) :
             SignedAt(pendingTransactions[id].signatures[signer])
                - pendingTransactions[id].timestamp <= expirationTime
    /\ \A i \in 1 .. Len(transactionHistory) :
          transactionHistory[i].id \in DOMAIN pendingTransactions =>
             transactionHistory[i].timestamp
                - pendingTransactions[transactionHistory[i].id].timestamp <= expirationTime

(* C7 as stated: a signTransaction call that is refused -- the signer is     *)
(* unknown, or the transaction is expired, executed or unknown -- appends an *)
(* entry to the audit trail.                                                 *)
C7_RejectionAudited ==
    [][(/\ lastCall'.op = "signTransaction"
        /\ lastCall'.outcome \in {"notAuthorized", "notPending"})
       => Len(auditLog') > Len(auditLog)]_vars

(* C8 as stated: the audit trail, written by logToAudit alone and never      *)
(* altered, passes verifyAuditLog whatever its length.                       *)
C8_UnalteredTrailVerifies == tampered = 0 => verifyAuditLog(auditLog)

(* C9 as stated: once the details or the hash of one entry have been         *)
(* altered, verifyAuditLog returns false.                                    *)
C9_AlterationDetected == tampered # 0 => ~verifyAuditLog(auditLog)

(* C10 as stated: every order the exchange accepted from the Quoting Engine  *)
(* or the Risk Engine was submitted when the gate held an authorization of   *)
(* an order that had reached executed.                                       *)
C10_SubmissionAuthorized ==
    \A i \in 1 .. Len(exchangeOrders) :
       \E j \in 1 .. Len(transactionHistory) :
          /\ transactionHistory[j].status = "executed"
          /\ transactionHistory[j].type = "order"
          /\ transactionHistory[j].timestamp <= exchangeOrders[i].submittedAt

-----------------------------------------------------------------------------
(* Part 3: the exchange gateway, src/unnamed/part_008 (HyperliquidAPI):      *)
(* the redundant pair of streaming connections, the keep-alive / stale       *)
(* check, failover, and the replay of subscriptions.                         *)
(*                                                                           *)
(* A string is the sequence of its segments between ":" characters, so       *)
(* `${channel}:${symbol}` is the concatenation of two sequences and          *)
(* split(":") is the sequence itself.  A socket is a record; its id is its   *)
(* position in `sockets`, 0 is undefined.  ws.close() moves a socket to      *)
(* CLOSING and its close event arrives in a later step.  Timers other than   *)
(* the 15s interval fire in any order between two ticks of that interval.    *)

MaxSockets == 4     \* WebSockets created in one behaviour
MaxTicks == 3       \* periods of the 15s interval that elapse in one behaviour
MaxSent == 1        \* subscribe / unsubscribe is called while the active socket sent fewer messages

pingPeriod == 15000
staleAfter == 30000
BootTime == 60000   \* Date.now() when the process starts; any value above staleAfter

Channels == {<<"trade">>}
Pairs == {<<"BTC-USDT">>, <<"xyz", "BTC">>}
Callers == {"initialize", "timer", "ping"}

api == [wsConnections |-> wsConnections, sockets |-> sockets,
        activeWsIndex |-> activeWsIndex, reconnectTimeout |-> reconnectTimeout,
        orphanTimeouts |-> orphanTimeouts, pingInterval |-> pingInterval,
        subscriptions |-> subscriptions, connectionRetryCount |-> connectionRetryCount,
        connecting |-> connecting]

InstallApi(a) ==
    /\ wsConnections' = a.wsConnections
    /\ sockets' = a.sockets
    /\ activeWsIndex' = a.activeWsIndex
    /\ reconnectTimeout' = a.reconnectTimeout
    /\ orphanTimeouts' = a.orphanTimeouts
    /\ pingInterval' = a.pingInterval
    /\ subscriptions' = a.subscriptions
    /\ connectionRetryCount' = a.connectionRetryCount
    /\ connecting' = a.connecting

(* this.wsConnections[index], 0 when there is none *)
ConnectionAt(a, index) ==
    IF index + 1 \in DOMAIN a.wsConnections THEN a.wsConnections[index + 1] ELSE 0

IsOpen(a, id) == id \in DOMAIN a.sockets /\ a.sockets[id].readyState = "OPEN"

SetReadyState(a, id, readyState) ==
    [a EXCEPT !.sockets[id].readyState = readyState]

(* new WebSocket(...), setupWebSocketHandlers(ws, index) *)
NewWebSocket(index) == [readyState |-> "CONNECTING", index |-> index, sent |-> <<>>]

(* ws.send(JSON.stringify(message)): the messages a socket has sent, with their number *)
send(a, id, message) ==
    LET sent == a.sockets[id].sent
    IN  [a EXCEPT !.sockets[id].sent =
            Put(sent, message, IF message \in DOMAIN sent THEN sent[message] + 1 ELSE 1)]

(* HyperliquidAPI.closeWebSocketConnections *)
closeWebSocketConnections(a) ==
    [a EXCEPT !.sockets = [id \in DOMAIN a.sockets |->
                             IF /\ id \in Range(a.wsConnections)
                                /\ a.sockets[id].readyState \in {"OPEN", "CONNECTING"}
                             THEN [a.sockets[id] EXCEPT !.readyState = "CLOSING"]
                             ELSE a.sockets[id]],
              !.reconnectTimeout = FALSE,
              !.pingInterval = FALSE]

(* HyperliquidAPI.connectWebSocket up to its await *)
connectWebSocket(a, caller) ==
    LET closed == closeWebSocketConnections(a)
        primaryWs == Len(a.sockets) + 1
        backupWs == Len(a.sockets) + 2
    IN  [closed EXCEPT !.sockets = closed.sockets \o <<NewWebSocket(0), NewWebSocket(1)>>,
                       !.wsConnections = <<primaryWs, backupWs>>,
                       !.connecting = closed.connecting \cup
                            {[sockets |-> {primaryWs, backupWs}, caller |-> caller]}]

(* HyperliquidAPI.getActiveWebSocket: the gateway after the call, and the socket returned *)
getActiveWebSocket(a) ==
    IF IsOpen(a, ConnectionAt(a, a.activeWsIndex))
    THEN [a |-> a, ws |-> ConnectionAt(a, a.activeWsIndex)]
    ELSE LET open == {i \in 0 .. Len(a.wsConnections) - 1 : IsOpen(a, ConnectionAt(a, i))}
         IN  IF open = {}
             THEN [a |-> a, ws |-> 0]
             ELSE LET openIndex == CHOOSE i \in open : \A j \in open : i <= j
                  IN  [a |-> [a EXCEPT !.activeWsIndex = openIndex],
                       ws |-> ConnectionAt(a, openIndex)]

(* symbol ? `${channel}:${symbol}` : channel *)
subscriptionKey(channel, symbol) == channel \o symbol

(* const [channel, symbol] = subscription.split(":") *)
SplitKey(subscription) ==
    [channel |-> <<subscription[1]>>,
     symbol |-> IF Len(subscription) >= 2 THEN <<subscription[2]>> ELSE <<>>]

(* HyperliquidAPI.subscribe *)
subscribe(a, channel, symbol) ==
    LET added == [a EXCEPT !.subscriptions = @ \cup {subscriptionKey(channel, symbol)}]
        active == getActiveWebSocket(added)
    IN  IF active.ws = 0
        THEN active.a
        ELSE send(active.a, active.ws,
                  [op |-> "subscribe", channel |-> channel, symbol |-> symbol])

(* HyperliquidAPI.unsubscribe *)
unsubscribe(a, channel, symbol) ==
    LET removed == [a EXCEPT !.subscriptions = @ \ {subscriptionKey(channel, symbol)}]
        active == getActiveWebSocket(removed)
    IN  IF active.ws = 0
        THEN active.a
        ELSE send(active.a, active.ws,
                  [op |-> "unsubscribe", channel |-> channel, symbol |-> symbol])

(* HyperliquidAPI.resubscribeToChannels: the for-of loop over the Set also   *)
(* visits the keys that subscribe adds while the loop runs.                  *)
RECURSIVE ResubscribeFrom(_, _)
ResubscribeFrom(a, visited) ==
    IF a.subscriptions \subseteq visited
    THEN a
    ELSE LET subscription == CHOOSE key \in a.subscriptions \ visited : TRUE
             parts == SplitKey(subscription)
         IN  ResubscribeFrom(subscribe(a, parts.channel, parts.symbol),
                             visited \cup {subscription})

resubscribeToChannels(a) == ResubscribeFrom(a, {})

(* HyperliquidAPI.startPingInterval *)
startPingInterval(a) == [a EXCEPT !.pingInterval = TRUE]

(* the catch block of connectWebSocket *)
ScheduleRetry(a) ==
    [a EXCEPT !.connectionRetryCount = @ + 1,
              !.orphanTimeouts = IF a.reconnectTimeout THEN @ + 1 ELSE @,
              !.reconnectTimeout = TRUE]

outsideApi == <<config, isRunning, monitorInterval, pendingTransactions,
                transactionHistory, auditLog, nextId, anomalyDetection, lastCall,
                tampered, orderVars, restVars, quoteVars, engineVars>>

InitApi ==
    /\ config = createDefaultSecurityConfig(walletAddress)
    /\ now = BootTime
    /\ Fresh
    /\ maker = MarketMaker(maxOpenOrders)
    /\ risk = FreshRisk(0)
    /\ bot = HyperliquidBot(createDefaultBotConfig(walletAddress))
    /\ quote = <<>>

(* HyperliquidAPI.initialize, up to the await in connectWebSocket.  The bot   *)
(* awaits initialize(), so no second call is made while one is suspended.     *)
Initialize ==
    /\ lifecycle \in {"new", "failed", "closed"}
    /\ \A pending \in connecting : pending.caller # "initialize"
    /\ Len(sockets) + 2 <= MaxSockets
    /\ InstallApi(connectWebSocket(api, "initialize"))
    /\ lifecycle' = "initializing"
    /\ UNCHANGED <<now, lastMessageTime, closeTimeouts, outsideApi>>

(* The "open" event of a socket: the handler of setupWebSocketHandlers, and,  *)
(* when a connectWebSocket call waits for this socket, the rest of that call  *)
(* and of initialize(); restOk is the outcome of getExchangeInfo().           *)
SocketOpen(id, restOk) ==
    /\ id \in DOMAIN sockets
    /\ sockets[id].readyState = "CONNECTING"
    /\ LET opened == SetReadyState(api, id, "OPEN")
           waiting == {pending \in connecting : id \in pending.sockets}
       IN  IF waiting = {}
           THEN /\ restOk
                /\ InstallApi(opened)
                /\ UNCHANGED lifecycle
           ELSE LET pending == CHOOSE w \in waiting : TRUE
                    resumed == [opened EXCEPT !.connecting = @ \ {pending},
                                              !.connectionRetryCount = 0]
                    replayed == resubscribeToChannels(resumed)
                IN  IF pending.caller = "initialize"
                    THEN /\ InstallApi(startPingInterval(replayed))
                         /\ lifecycle' = IF lifecycle # "initializing" THEN lifecycle
                                         ELSE IF restOk THEN "initialized" ELSE "failed"
                    ELSE /\ restOk
                         /\ InstallApi(replayed)
                         /\ UNCHANGED lifecycle
    /\ UNCHANGED <<now, lastMessageTime, closeTimeouts, outsideApi>>

(* The 10s timeout of connectWebSocket rejecting its promise: the catch block *)
ConnectTimeout(pending) ==
    /\ pending \in connecting
    /\ InstallApi(ScheduleRetry([api EXCEPT !.connecting = @ \ {pending}]))
    /\ lifecycle' = IF pending.caller = "initialize" /\ lifecycle = "initializing"
                    THEN "failed" ELSE lifecycle
    /\ UNCHANGED <<now, lastMessageTime, closeTimeouts, outsideApi>>

(* The retry timer set by the catch block of connectWebSocket fires *)
ReconnectTimeoutFires(orphan) ==
    /\ Len(sockets) + 2 <= MaxSockets
    /\ IF orphan
       THEN /\ orphanTimeouts > 0
            /\ InstallApi(connectWebSocket([api EXCEPT !.orphanTimeouts = @ - 1], "timer"))
       ELSE /\ reconnectTimeout
            /\ InstallApi(connectWebSocket([api EXCEPT !.reconnectTimeout = FALSE], "timer"))
    /\ UNCHANGED <<now, lastMessageTime, closeTimeouts, lifecycle, outsideApi>>

(* The "close" event of a socket: after ws.close(), or because the            *)
(* connection dropped or could not be established.  What was sent on the      *)
(* connection is gone with it.                                                *)
SocketClose(id) ==
    /\ id \in DOMAIN sockets
    /\ sockets[id].readyState # "CLOSED"
    /\ LET index == sockets[id].index
           closed == [api EXCEPT !.sockets[id] =
                         [readyState |-> "CLOSED", index |-> index, sent |-> <<>>]]
       IN  /\ InstallApi(IF index = activeWsIndex /\ Len(wsConnections) > 1
                         THEN [closed EXCEPT !.activeWsIndex =
                                  (activeWsIndex + 1) % Len(wsConnections)]
                         ELSE closed)
           /\ closeTimeouts' = [closeTimeouts EXCEPT ![index] = @ + 1]
    /\ UNCHANGED <<now, lastMessageTime, lifecycle, outsideApi>>

(* A 5s timer set by a close handler fires *)
CloseTimeoutFires(index) ==
    /\ closeTimeouts[index] > 0
    /\ closeTimeouts' = [closeTimeouts EXCEPT ![index] = @ - 1]
    /\ LET current == ConnectionAt(api, index)
       IN  IF current # 0 /\ sockets[current].readyState = "CLOSED"
           THEN /\ Len(sockets) < MaxSockets
                /\ InstallApi([api EXCEPT !.sockets = Append(@, NewWebSocket(index)),
                                          !.wsConnections[index + 1] = Len(sockets) + 1])
           ELSE InstallApi(api)
    /\ UNCHANGED <<now, lastMessageTime, lifecycle, outsideApi>>

(* 15s pass; the callback of startPingInterval runs when the interval is armed *)
Tick ==
    /\ now < BootTime + MaxTicks * pingPeriod
    /\ now' = now + pingPeriod
    /\ IF ~pingInterval
       THEN InstallApi(api)
       ELSE IF now' - lastMessageTime > staleAfter
            THEN /\ Len(sockets) + 2 <= MaxSockets
                 /\ InstallApi(connectWebSocket(api, "ping"))
            ELSE InstallApi(getActiveWebSocket(api).a)
    /\ UNCHANGED <<lastMessageTime, closeTimeouts, lifecycle, outsideApi>>

(* The "message" event of an open socket *)
Message(id) ==
    /\ IsOpen(api, id)
    /\ lastMessageTime' = now
    /\ InstallApi(api)
    /\ UNCHANGED <<now, closeTimeouts, lifecycle, outsideApi>>

SentBy(id) ==
    IF id = 0 THEN 0
    ELSE LET sent == sockets[id].sent
             RECURSIVE Sum(_)
             Sum(S) == IF S = {} THEN 0
                       ELSE LET m == CHOOSE x \in S : TRUE IN sent[m] + Sum(S \ {m})
         IN  Sum(DOMAIN sent)

Subscribe(channel, symbol) ==
    /\ SentBy(getActiveWebSocket(api).ws) < MaxSent
    /\ InstallApi(subscribe(api, channel, symbol))
    /\ UNCHANGED <<now, lastMessageTime, closeTimeouts, lifecycle, outsideApi>>

Unsubscribe(channel, symbol) ==
    /\ SentBy(getActiveWebSocket(api).ws) < MaxSent
    /\ InstallApi(unsubscribe(api, channel, symbol))
    /\ UNCHANGED <<now, lastMessageTime, closeTimeouts, lifecycle, outsideApi>>

(* HyperliquidAPI.close *)
Close ==
    /\ lifecycle \notin {"new", "closed"}
    /\ InstallApi(closeWebSocketConnections(api))
    /\ lifecycle' = "closed"
    /\ UNCHANGED <<now, lastMessageTime, closeTimeouts, outsideApi>>

(* The connection pair on its own: no channel is subscribed. *)
NextApi ==
    \/ Initialize
    \/ \E id \in 1 .. MaxSockets, restOk \in BOOLEAN : SocketOpen(id, restOk)
    \/ \E pending \in connecting : ConnectTimeout(pending)
    \/ \E orphan \in BOOLEAN : ReconnectTimeoutFires(orphan)
    \/ \E id \in 1 .. MaxSockets : SocketClose(id)
    \/ \E index \in {0, 1} : CloseTimeoutFires(index)
    \/ Tick
    \/ \E id \in 1 .. MaxSockets : Message(id)
    \/ Close

SpecApi == InitApi /\ [][NextApi]_vars

(* The connection pair carrying subscriptions. *)
NextStream ==
    \/ Initialize
    \/ \E id \in 1 .. MaxSockets, restOk \in BOOLEAN : SocketOpen(id, restOk)
    \/ \E id \in 1 .. MaxSockets : SocketClose(id)
    \/ \E index \in {0, 1} : CloseTimeoutFires(index)
    \/ Tick
    \/ \E channel \in Channels, symbol \in Pairs : Subscribe(channel, symbol)
    \/ \E channel \in Channels, symbol \in Pairs : Unsubscribe(channel, symbol)

SpecStream == InitApi /\ [][NextStream]_vars

-----------------------------------------------------------------------------
(* Part 4: REST calls of the gateway, src/unnamed/part_008: makeRequest with  *)
(* its retries, and the rate limiter every attempt passes through             *)
(* (waitForRateLimit, processRequestQueue).  Time advances in steps of        *)
(* timeStep; the backoff timers of makeRequest fire between two steps.        *)

MaxCalls == 1       \* makeRequest calls in one behaviour (one more where calls compete for the limiter)

maxRetries == 3
retryDelay == 1000
maxRequests == 10
timeWindow == 1000
requestInterval == timeWindow \div maxRequests
timeStep == requestInterval \div 2

Outcomes == {"ok", "4xx", "5xx", "ECONNABORTED"}

RECURSIVE Pow2(_)
Pow2(n) == IF n = 0 THEN 1 ELSE 2 * Pow2(n - 1)

(* error.response?.status >= 500 || error.code === "ECONNABORTED" *)
IsRetryable_anyFailure(outcome) == outcome # "ok"

IsRetryable(outcome) == outcome \in {"5xx", "ECONNABORTED"}

(* retries <= this.config.maxRetries *)
RetriesRemain_oneMore(retries) == retries <= maxRetries + 1

RetriesRemain(retries) == retries <= maxRetries

NewCall == [state |-> "waiting", retries |-> 0, attempts |-> 0, delay |-> 0,
            delayLeft |-> 0, outcome |-> "none"]

(* what is left of a backoff delay, as far as the limiter can tell it apart *)
UpToInterval(time) == IF time > requestInterval THEN requestInterval ELSE time

(* request(): the limiter resolves the promise of waitForRateLimit and the attempt is sent *)
Release(id) ==
    /\ lastRelease' = [id |-> id, first |-> lastRelease.id = 0, gap |-> sinceRelease]
    /\ sinceRelease' = 0
    /\ processor' = "request"

(* waitForRateLimit, called by the request interceptor for an attempt of call id; *)
(* `before` is the call before this step.  processRequestQueue runs up to its     *)
(* first await when it is not running yet.                                        *)
waitForRateLimit(id, before) ==
    IF processingQueue
    THEN /\ requestQueue' = Append(requestQueue, id)
         /\ calls' = Put(calls, id, [before EXCEPT !.state = "waiting"])
         /\ UNCHANGED <<processingQueue, processor, sinceRelease, lastRelease>>
    ELSE /\ processingQueue' = TRUE
         /\ requestQueue' = requestQueue
         /\ calls' = Put(calls, id, [before EXCEPT !.state = "inflight",
                                                    !.attempts = @ + 1])
         /\ Release(id)

outsideRest == <<gateVars, orderVars, apiVars, quoteVars, engineVars>>

(* HyperliquidAPI.makeRequest is called *)
MakeRequest ==
    /\ Len(calls) < MaxCalls
    /\ waitForRateLimit(Len(calls) + 1, NewCall)
    /\ UNCHANGED <<sleepLeft, outsideRest>>

(* HyperliquidAPI.makeRequest is called once more, by another caller *)
AnotherRequest ==
    /\ Len(calls) = MaxCalls
    /\ waitForRateLimit(Len(calls) + 1, NewCall)
    /\ UNCHANGED <<sleepLeft, outsideRest>>

(* processRequestQueue resumes after await request() *)
ProcessorResumes ==
    /\ processor = "request"
    /\ IF Len(requestQueue) > 0
       THEN /\ processor' = "sleep"
            /\ sleepLeft' = requestInterval
            /\ UNCHANGED processingQueue
       ELSE /\ processor' = "idle"
            /\ processingQueue' = FALSE
            /\ UNCHANGED sleepLeft
    /\ UNCHANGED <<requestQueue, sinceRelease, calls, lastRelease, outsideRest>>

(* the setTimeout of processRequestQueue fires: the next iteration of its loop *)
ProcessorWakes ==
    /\ processor = "sleep"
    /\ sleepLeft = 0
    /\ LET id == Head(requestQueue)
       IN  /\ requestQueue' = Tail(requestQueue)
           /\ calls' = [calls EXCEPT ![id].state = "inflight", ![id].attempts = @ + 1]
           /\ Release(id)
    /\ UNCHANGED <<processingQueue, sleepLeft, outsideRest>>

(* timeStep passes; the timer of the limiter fires when it is due, a backoff  *)
(* timer not before requestInterval has passed                               *)
TimePasses ==
    /\ ~(processor = "sleep" /\ sleepLeft = 0)
    /\ sleepLeft' = IF processor = "sleep" THEN sleepLeft - timeStep ELSE sleepLeft
    /\ sinceRelease' = IF sinceRelease + timeStep > requestInterval
                       THEN requestInterval ELSE sinceRelease + timeStep
    /\ calls' = [id \in DOMAIN calls |->
                    IF calls[id].state = "delay" /\ calls[id].delayLeft > 0
                    THEN [calls[id] EXCEPT !.delayLeft = @ - timeStep]
                    ELSE calls[id]]
    /\ sinceRelease' # sinceRelease \/ sleepLeft' # sleepLeft \/ calls' # calls
    /\ UNCHANGED <<requestQueue, processingQueue, processor, lastRelease, outsideRest>>

(* the attempt of call id ends: the body of the while loop of makeRequest after the await *)
Respond(id, outcome) ==
    /\ id \in DOMAIN calls
    /\ calls[id].state = "inflight"
    /\ LET retries == calls[id].retries + 1
       IN  calls' = [calls EXCEPT ![id] =
              IF outcome = "ok"
              THEN [@ EXCEPT !.state = "returned", !.outcome = outcome]
              ELSE IF RetriesRemain(retries) /\ IsRetryable(outcome)
                   THEN [@ EXCEPT !.state = "delay", !.retries = retries,
                                  !.outcome = outcome,
                                  !.delay = retryDelay * Pow2(retries - 1),
                                  !.delayLeft = UpToInterval(retryDelay * Pow2(retries - 1))]
                   ELSE [@ EXCEPT !.state = "threw", !.retries = retries,
                                  !.outcome = outcome]]
    /\ UNCHANGED <<requestQueue, processingQueue, processor, sleepLeft, sinceRelease,
                   lastRelease, outsideRest>>

(* the backoff timer of call id fires: the next iteration of the while loop *)
RetryAfterDelay(id) ==
    /\ id \in DOMAIN calls
    /\ calls[id].state = "delay"
    /\ calls[id].delayLeft = 0
    /\ waitForRateLimit(id, calls[id])
    /\ UNCHANGED <<sleepLeft, outsideRest>>

NextRest ==
    \/ MakeRequest
    \/ ProcessorResumes
    \/ ProcessorWakes
    \/ TimePasses
    \/ \E id \in 1 .. MaxCalls, outcome \in Outcomes : Respond(id, outcome)
    \/ \E id \in 1 .. MaxCalls : RetryAfterDelay(id)

(* Every attempt gets its answer or its 30s timeout, every timer fires, and   *)
(* the event loop runs every continuation that is ready.                      *)
FairRest ==
    /\ WF_vars(ProcessorResumes)
    /\ WF_vars(ProcessorWakes)
    /\ WF_vars(TimePasses)
    /\ WF_vars(\E id \in 1 .. MaxCalls, outcome \in Outcomes :
                  Respond(id, outcome))
    /\ WF_vars(\E id \in 1 .. MaxCalls : RetryAfterDelay(id))

SpecRest == InitApi /\ [][NextRest]_vars /\ FairRest

(* Calls competing for the rate limiter *)
NextLimiter ==
    \/ NextRest
    \/ AnotherRequest
    \/ \E outcome \in Outcomes : Respond(MaxCalls + 1, outcome)
    \/ RetryAfterDelay(MaxCalls + 1)

SpecLimiter == InitApi /\ [][NextLimiter]_vars

-----------------------------------------------------------------------------
(* Properties of the exchange gateway *)

(* the subscriptions registered by subscribe(channel, symbol) calls and not removed *)
Registered ==
    {message \in {[op |-> "subscribe", channel |-> channel, symbol |-> symbol] :
                     channel \in Channels, symbol \in Pairs} :
        subscriptionKey(message.channel, message.symbol) \in subscriptions}

(* how many times a socket has sent a message *)
TimesSent(sent, message) == IF message \in DOMAIN sent THEN sent[message] ELSE 0

(* a connectWebSocket call resumes after its await in this step *)
ConnectSucceeds ==
    /\ connecting' # connecting
    /\ connecting' \subseteq connecting
    /\ \E id \in DOMAIN sockets :
          sockets[id].readyState = "CONNECTING" /\ sockets'[id].readyState = "OPEN"

(* C11: when a (re)connect of the pair succeeds, the connection that is then *)
(* active has been sent every registered subscription exactly once, and no   *)
(* subscribe message for anything that is not registered.                    *)
C11_ReplayedExactlyOnce ==
    [][ConnectSucceeds =>
          LET sent == sockets'[wsConnections'[activeWsIndex' + 1]].sent
          IN  \A message \in Registered \cup DOMAIN sent :
                 message.op = "subscribe" =>
                    TimesSent(sent, message) = IF message \in Registered THEN 1 ELSE 0]_vars

(* C12: while the gateway is initialized and not closed, the 15s keep-alive  *)
(* / stale-check interval is armed.                                          *)
C12_KeepAliveArmed == lifecycle = "initialized" => pingInterval

(* the socket that wsConnections holds at an index after the step is open *)
OpenAfter(index) ==
    /\ index + 1 \in DOMAIN wsConnections'
    /\ sockets'[wsConnections'[index + 1]].readyState = "OPEN"

(* C13: activeWsIndex is never moved onto a connection that is not open      *)
(* while the connection it is moved away from is open.                       *)
C13_ActiveNeverMovedOffOpen ==
    [][activeWsIndex' # activeWsIndex =>
          ~(~OpenAfter(activeWsIndex') /\ OpenAfter(activeWsIndex))]_vars

(* the close handler moves activeWsIndex onto the other connection, which is open *)
Failover ==
    /\ activeWsIndex' # activeWsIndex
    /\ \E id \in DOMAIN sockets :
          sockets[id].readyState # "CLOSED" /\ sockets'[id].readyState = "CLOSED"
    /\ OpenAfter(activeWsIndex')

(* C14: after a failover every registered subscription has been sent on the  *)
(* connection that is then active.                                           *)
C14_FailoverKeepsSubscriptions ==
    [][Failover =>
          \A message \in Registered :
             TimesSent(sockets'[wsConnections'[activeWsIndex' + 1]].sent, message) >= 1]_vars

(* C15: after close() the gateway has no open or connecting socket and no    *)
(* armed retry, 5s reconnect or keep-alive timer, until initialize is called *)
(* again.                                                                    *)
C15_ClosedStaysClosed ==
    lifecycle = "closed" =>
        /\ \A id \in DOMAIN sockets : sockets[id].readyState \notin {"OPEN", "CONNECTING"}
        /\ ~reconnectTimeout /\ orphanTimeouts = 0
        /\ ~pingInterval

-----------------------------------------------------------------------------
(* Properties of the REST calls *)

(* the attempt of call id ends in this step *)
AttemptEnds(id) ==
    /\ id \in DOMAIN calls
    /\ calls[id].state = "inflight"
    /\ calls'[id].state # "inflight"

Finished(id) == id \in DOMAIN calls /\ calls[id].state \in {"returned", "threw"}

(* C16: a call makes at most maxRetries + 1 attempts; an attempt that fails  *)
(* with a 5xx status or a timeout is retried exactly while fewer than        *)
(* maxRetries + 1 attempts were made, a 4xx failure and the failure of the   *)
(* last attempt are thrown to the caller, a success is returned; and every   *)
(* call finishes.                                                            *)
C16_BoundedRetries ==
    /\ [](\A id \in DOMAIN calls : calls[id].attempts <= maxRetries + 1)
    /\ [][\A id \in 1 .. MaxCalls :
             AttemptEnds(id) =>
                LET after == calls'[id]
                    retryable == after.outcome \in {"5xx", "ECONNABORTED"}
                IN  /\ after.state = "returned" <=> after.outcome = "ok"
                    /\ after.state = "delay" <=>
                          (retryable /\ calls[id].attempts < maxRetries + 1)
                    /\ after.state = "threw" <=>
                          (after.outcome # "ok" /\
                           (~retryable \/ calls[id].attempts = maxRetries + 1))
                    /\ after.outcome = "4xx" => after.state = "threw"]_vars
    /\ \A id \in 1 .. MaxCalls : (id \in DOMAIN calls) ~> Finished(id)

C16_Witness ==
    \E id \in DOMAIN calls :
        /\ calls[id].state = "threw"
        /\ calls[id].attempts = maxRetries + 1
        /\ calls[id].outcome = "5xx"

(* C17: a request is released by the limiter at least requestInterval after  *)
(* the request released before it.                                           *)
C17_ReleasesSpaced ==
    (lastRelease.id # 0 /\ ~lastRelease.first) => lastRelease.gap >= requestInterval

-----------------------------------------------------------------------------
(* Part 5: the prices and sizes of the Quoting Engine (MarketMaker), for one *)
(* symbol.  Prices are in thousandths of the quote currency and sizes in     *)
(* thousandths of the base currency; a value that is no whole number of      *)
(* thousandths is the fraction [num, den] of thousandths.  The arithmetic is *)
(* exact.                                                                    *)

MaxRefresh == 2   \* refreshOrdersForSymbol calls in one behaviour

(* createDefaultMarketMakingConfig *)
tier1 == 1                  \* 0.1%, in tenths of a percent
tier2 == 2
tier3 == 5
mediumThreshold == 50
highThreshold == 100
imbalanceThreshold == 20    \* 0.2, in hundredths
adjustmentFactor == 50      \* 0.5, in hundredths
targetRatio == 50           \* 0.5, in hundredths
maxImbalance == 5
minOrderSize == 1           \* 0.001
maxOrderSize == 1000        \* 1.0
orderSizeIncrement == 1     \* 0.001
priceIncrement == 10        \* 0.01
levels == 3
sizeMultiplier == [num |-> 3, den |-> 2]
spreadMultiplier == 1
volumePercentage == 1       \* 0.001 of a volume in whole units, in thousandths

(* what Map.get returns: no value, or the value *)
NoData == <<>>
Maybe(values) == {NoData} \cup {<<value>> : value \in values}

(* orderBooks.get(symbol): the best prices (0: that side of the book is      *)
(* empty) and the volume of the top levels of each side                      *)
OrderBooks ==
    {[bestBid |-> 100000, bestAsk |-> 102000, bidVolume |-> 1, askVolume |-> 1],
     [bestBid |-> 100000, bestAsk |-> 102000, bidVolume |-> 2, askVolume |-> 1],
     [bestBid |-> 100000, bestAsk |-> 102000, bidVolume |-> 1, askVolume |-> 2],
     [bestBid |-> 100004, bestAsk |-> 102000, bidVolume |-> 1, askVolume |-> 1],
     [bestBid |-> 0, bestAsk |-> 102000, bidVolume |-> 0, askVolume |-> 1]}
Volumes24h == {100, 500, 5000}           \* marketData.get(symbol).volume24h, whole units
PositionSizes == {-600, -100, 100, 600}  \* positions.get(symbol).size
Volatilities == {60, 120}                \* volatilityMetrics.get(symbol).short
Strategies == {"passive", "aggressive"}

QuoteInputs ==
    [orderBook : Maybe(OrderBooks),
     marketData : Maybe(Volumes24h),
     position : Maybe(PositionSizes),
     volatility : Maybe(Volatilities),
     rebalanceStrategy : Strategies,
     imbalanceEnable : BOOLEAN,
     layeringEnable : BOOLEAN,
     refreshes : {0},
     last : {[outcome |-> "none"]}]

RECURSIVE Power(_, _)
Power(b, n) == IF n = 0 THEN 1 ELSE b * Power(b, n - 1)

Smaller(a, b) == IF a < b THEN a ELSE b
Larger(a, b) == IF a > b THEN a ELSE b

(* Math.floor(x / increment) * increment *)
FloorTo_ceiling(x, increment) == (-((-x.num) \div (x.den * increment))) * increment

FloorTo(x, increment) == (x.num \div (x.den * increment)) * increment

(* Math.ceil(x / increment) * increment *)
CeilTo(x, increment) == (-((-x.num) \div (x.den * increment))) * increment

(* Math.floor(x), for x in thousandths: a whole number of units *)
FloorWhole(x) == (x.num \div (x.den * 1000)) * 1000

(* Math.max(lo, Math.min(hi, x)) *)
Clamp(lo, hi, x) ==
    IF x.num > hi * x.den THEN [num |-> hi, den |-> 1]
    ELSE IF x.num < lo * x.den THEN [num |-> lo, den |-> 1]
    ELSE x

(* the spread tier calculateOptimalPrices picks from the short volatility *)
SpreadTier(q) ==
    IF q.volatility = NoData THEN tier1
    ELSE IF q.volatility[1] > highThreshold THEN tier3
    ELSE IF q.volatility[1] > mediumThreshold THEN tier2
    ELSE tier1

(* twice midPrice *)
Mid2(book) == book.bestBid + book.bestAsk

(* MarketMaker.calculateImbalanceAdjustment: the adjustment is              *)
(* midPrice * imbalanceRatio * adjustmentFactor, the fraction                *)
(* Mid2 * ratio.num * adjustmentFactor / (200 * ratio.den); here its ratio,  *)
(* 0 below the threshold                                                     *)
ImbalanceRatio(book) ==
    LET totalVolume == book.bidVolume + book.askVolume
        difference == book.bidVolume - book.askVolume
    IN  IF totalVolume = 0 \/ 100 * Abs(difference) < imbalanceThreshold * totalVolume
        THEN [num |-> 0, den |-> 1]
        ELSE [num |-> difference, den |-> totalVolume]

(* calculateImbalanceAdjustment reads bids[0][0] and asks[0][0] once the     *)
(* threshold is passed: a TypeError when that side of the book is empty      *)
ImbalanceThrows(q) ==
    /\ q.imbalanceEnable
    /\ ImbalanceRatio(q.orderBook[1]).num # 0
    /\ (q.orderBook[1].bestBid = 0 \/ q.orderBook[1].bestAsk = 0)

(* MarketMaker.calculateOptimalPrices *)
calculateOptimalPrices(q) ==
    LET mid2 == Mid2(q.orderBook[1])
        ratio == IF q.imbalanceEnable THEN ImbalanceRatio(q.orderBook[1])
                 ELSE [num |-> 0, den |-> 1]
        shift == 20 * adjustmentFactor * ratio.num
        \* midPrice -+ halfSpread -+ imbalanceAdjustment, over 4000 * ratio.den
        bidPrice == [num |-> mid2 * ((2000 - SpreadTier(q)) * ratio.den - shift),
                     den |-> 4000 * ratio.den]
        askPrice == [num |-> mid2 * ((2000 + SpreadTier(q)) * ratio.den + shift),
                     den |-> 4000 * ratio.den]
    IN  [bidPrice |-> FloorTo(bidPrice, priceIncrement),
         askPrice |-> CeilTo(askPrice, priceIncrement)]

(* MarketMaker.calculateBaseOrderSize *)
calculateBaseOrderSize(q) ==
    IF q.marketData = NoData THEN minOrderSize
    ELSE Larger(minOrderSize, Smaller(maxOrderSize, q.marketData[1] * volumePercentage))

(* inventorySkew of calculateOrderSizes, a fraction between -1 and 1 *)
InventorySkew(q) ==
    LET positionSize == IF q.position = NoData THEN 0 ELSE q.position[1]
        full == calculateBaseOrderSize(q) * maxImbalance
    IN  IF positionSize >= full THEN [num |-> 1, den |-> 1]
        ELSE IF positionSize <= -full THEN [num |-> -1, den |-> 1]
        ELSE [num |-> positionSize, den |-> full]

(* MarketMaker.calculateOrderSizes: the sizes it returns, and the sizes      *)
(* before they are floored                                                   *)
calculateOrderSizes(q) ==
    LET baseOrderSize == calculateBaseOrderSize(q)
        skew == InventorySkew(q)
        whole == [num |-> baseOrderSize, den |-> 1]
        \* baseOrderSize * (1 - |inventorySkew|)
        reduced == [num |-> baseOrderSize * (skew.den - Abs(skew.num)), den |-> skew.den]
        aggressive == q.rebalanceStrategy = "aggressive"
        bidSize ==
            IF skew.num > 0 THEN (IF aggressive THEN reduced ELSE whole)
            ELSE IF skew.num < 0
            THEN [num |-> baseOrderSize * ((100 + targetRatio) * skew.den
                                            + skew.num * targetRatio),
                  den |-> 100 * skew.den]
            ELSE whole
        askSize ==
            IF skew.num > 0
            THEN [num |-> baseOrderSize * ((200 - targetRatio) * skew.den
                                            - skew.num * (100 - targetRatio)),
                  den |-> 100 * skew.den]
            ELSE IF skew.num < 0 THEN (IF aggressive THEN reduced ELSE whole)
            ELSE whole
        bidWithin == Clamp(minOrderSize, maxOrderSize, bidSize)
        askWithin == Clamp(minOrderSize, maxOrderSize, askSize)
    IN  [bidSize |-> FloorTo(bidWithin, orderSizeIncrement),
         askSize |-> FloorTo(askWithin, orderSizeIncrement),
         bidComputed |-> bidWithin,
         askComputed |-> askWithin]

(* one pass of a loop of MarketMaker.placeLayeredOrders: the order of level i *)
LayerOrder(side, basePrice, baseSize, i) ==
    LET away == [num |-> basePrice * (IF side = "buy" THEN 100 - spreadMultiplier * i
                                                       ELSE 100 + spreadMultiplier * i),
                 den |-> 100]
        computed == [num |-> baseSize * Power(sizeMultiplier.num, i),
                     den |-> Power(sizeMultiplier.den, i)]
    IN  [side |-> side,
         price |-> IF side = "buy" THEN FloorTo(away, priceIncrement)
                                   ELSE CeilTo(away, priceIncrement),
         size |-> FloorWhole(computed),
         computed |-> computed,
         layer |-> i]

(* the orders refreshOrdersForSymbol and placeLayeredOrders go through, in   *)
(* order: base bid, base ask, layered bids, layered asks                     *)
Candidates(q) ==
    LET prices == calculateOptimalPrices(q)
        sizes == calculateOrderSizes(q)
        base == <<[side |-> "buy", price |-> prices.bidPrice, size |-> sizes.bidSize,
                   computed |-> sizes.bidComputed, layer |-> 0],
                  [side |-> "sell", price |-> prices.askPrice, size |-> sizes.askSize,
                   computed |-> sizes.askComputed, layer |-> 0]>>
        layered == [i \in 1 .. 2 * levels |->
                       IF i <= levels
                       THEN LayerOrder("buy", prices.bidPrice, sizes.bidSize, i)
                       ELSE LayerOrder("sell", prices.askPrice, sizes.askSize, i - levels)]
    IN  IF q.layeringEnable THEN base \o layered ELSE base

(* MarketMaker.placeLimitOrder on m = the exchange's orders, activeOrders    *)
(* and the requests handed to api.placeOrder                                 *)
placeLimitOrder(m, symbol, order, accepted) ==
    LET symbolOrders == {id \in DOMAIN m.active : m.active[id].symbol = symbol}
        request == [symbol |-> symbol, side |-> order.side, type |-> "limit",
                    price |-> order.price, size |-> order.size, clientOrderId |-> "mm"]
        id == Len(m.exchange) + 1
    IN  IF Cardinality(symbolOrders) >= maxOpenOrders THEN m
        ELSE IF ~accepted THEN [m EXCEPT !.submitted = Append(@, order)]
        ELSE [exchange |-> placeOrder(m.exchange, request, now),
              active |-> Put(m.active, id,
                             [id |-> id, symbol |-> symbol, side |-> order.side,
                              type |-> "limit", price |-> order.price,
                              size |-> order.size]),
              submitted |-> Append(m.submitted, order)]

RECURSIVE PlaceFrom(_, _, _, _, _)
PlaceFrom(m, symbol, orders, i, accepted) ==
    IF i > Len(orders) THEN m
    ELSE PlaceFrom(IF orders[i].size >= minOrderSize
                   THEN placeLimitOrder(m, symbol, orders[i], accepted)
                   ELSE m,
                   symbol, orders, i + 1, accepted)

(* MarketMaker.cancelOrdersForSymbol: every cancel is accepted, or none is *)
cancelOrdersForSymbol(active, symbol, cancelled) ==
    IF cancelled
    THEN [id \in {k \in DOMAIN active : active[k].symbol # symbol} |-> active[id]]
    ELSE active

(* MarketMaker.refreshOrdersForSymbol *)
RefreshOrdersForSymbol(symbol, cancelled, accepted) ==
    /\ quote.refreshes < MaxRefresh
    /\ IF quote.orderBook = NoData \/ quote.marketData = NoData
       THEN /\ quote' = [quote EXCEPT !.refreshes = @ + 1, !.last = [outcome |-> "skipped"]]
            /\ UNCHANGED <<exchangeOrders, activeOrders>>
       ELSE IF ImbalanceThrows(quote)
       THEN /\ quote' = [quote EXCEPT !.refreshes = @ + 1, !.last = [outcome |-> "threw"]]
            /\ UNCHANGED <<exchangeOrders, activeOrders>>
       ELSE LET before == [exchange |-> exchangeOrders,
                           active |-> cancelOrdersForSymbol(activeOrders, symbol, cancelled),
                           submitted |-> <<>>]
                after == PlaceFrom(before, symbol, Candidates(quote), 1, accepted)
            IN  /\ exchangeOrders' = after.exchange
                /\ activeOrders' = after.active
                /\ quote' = [quote EXCEPT
                                !.refreshes = @ + 1,
                                !.last = [outcome |-> "refreshed",
                                          prices |-> calculateOptimalPrices(quote),
                                          sizes |-> calculateOrderSizes(quote),
                                          baseOrderSize |-> calculateBaseOrderSize(quote),
                                          submitted |-> after.submitted]]
    /\ UNCHANGED <<gateVars, stopLossOrders, apiVars, restVars, engineVars>>

InitQuote ==
    /\ config = createDefaultSecurityConfig(walletAddress)
    /\ now = 0
    /\ Fresh
    /\ maker = MarketMaker(maxOpenOrders)
    /\ risk = FreshRisk(0)
    /\ bot = HyperliquidBot(createDefaultBotConfig(walletAddress))
    /\ quote \in QuoteInputs

NextQuote ==
    \E symbol \in Symbols, cancelled \in BOOLEAN, accepted \in BOOLEAN :
        RefreshOrdersForSymbol(symbol, cancelled, accepted)

SpecQuote == InitQuote /\ [][NextQuote]_vars

-----------------------------------------------------------------------------
(* Properties of the Quoting Engine *)

Refreshed == quote.last.outcome = "refreshed"

(* C18: every order the Quoting Engine hands to api.placeOrder, base quote   *)
(* or layered order, has a size of at least minOrderSize, and that size is   *)
(* the computed size floored to a multiple of the size increment.            *)
C18_SubmittedSizesFloored ==
    Refreshed =>
        \A i \in 1 .. Len(quote.last.submitted) :
            LET order == quote.last.submitted[i]
            IN  /\ order.size >= minOrderSize
                /\ order.size = FloorTo(order.computed, orderSizeIncrement)

QuotedWithoutImbalance == Refreshed /\ ~quote.imbalanceEnable

(* bid is the largest multiple of the price increment that is at most        *)
(* mid - halfSpread, ask the smallest that is at least mid + halfSpread,     *)
(* with halfSpread = mid * tier% / 2; and bid <= mid <= ask                  *)
RoundedAroundMid ==
    LET mid2 == Mid2(quote.orderBook[1])
        tier == SpreadTier(quote)
        bid == quote.last.prices.bidPrice
        ask == quote.last.prices.askPrice
    IN  /\ bid % priceIncrement = 0
        /\ ask % priceIncrement = 0
        /\ 4000 * bid <= mid2 * (2000 - tier)
        /\ mid2 * (2000 - tier) < 4000 * (bid + priceIncrement)
        /\ 4000 * (ask - priceIncrement) < mid2 * (2000 + tier)
        /\ mid2 * (2000 + tier) <= 4000 * ask
        /\ 2 * bid <= mid2
        /\ mid2 <= 2 * ask

(* mid - bid = ask - mid *)
SameDistance ==
    quote.last.prices.bidPrice + quote.last.prices.askPrice = Mid2(quote.orderBook[1])

OnGrid ==
    /\ quote.orderBook[1].bestBid % priceIncrement = 0
    /\ quote.orderBook[1].bestAsk % priceIncrement = 0

(* C19: with imbalance adjustment disabled, calculateOptimalPrices returns   *)
(* mid - halfSpread rounded down and mid + halfSpread rounded up to the      *)
(* price increment, so bid <= mid <= ask; and when the best bid and the best *)
(* ask are multiples of the price increment, the two quotes lie at the same  *)
(* distance from mid.                                                        *)
C19_PricesBracketMid ==
    QuotedWithoutImbalance => (RoundedAroundMid /\ (OnGrid => SameDistance))

(* C19, the example: best bid 100, best ask 102, tier1: 100.94 and 101.06 *)
C19_Witness ==
    /\ QuotedWithoutImbalance
    /\ quote.orderBook[1].bestBid = 100000
    /\ quote.orderBook[1].bestAsk = 102000
    /\ SpreadTier(quote) = tier1
    /\ quote.last.prices = [bidPrice |-> 100940, askPrice |-> 101060]

(* C19 as stated: the two quotes lie at the same distance from mid for every *)
(* order book.                                                               *)
C19_AlwaysSameDistance ==
    QuotedWithoutImbalance => (RoundedAroundMid /\ SameDistance)

(* C20: for a position skewed long the ask size is not larger than the base  *)
(* size and does not grow with the skew, and under the aggressive strategy   *)
(* the bid size is not larger than the base size either; for a position      *)
(* skewed short the same holds of the bid size, and of the ask size under    *)
(* the aggressive strategy.                                                  *)
C20_SkewShrinksSizes ==
    Refreshed =>
        LET skew == InventorySkew(quote)
            sizes == quote.last.sizes
            base == quote.last.baseOrderSize
            aggressive == quote.rebalanceStrategy = "aggressive"
            With(size) == calculateOrderSizes([quote EXCEPT !.position = <<size>>])
        IN  /\ skew.num > 0 =>
                  /\ sizes.askSize <= base
                  /\ aggressive => sizes.bidSize <= base
                  /\ \A longer \in PositionSizes :
                        longer > quote.position[1] => With(longer).askSize <= sizes.askSize
            /\ skew.num < 0 =>
                  /\ sizes.bidSize <= base
                  /\ aggressive => sizes.askSize <= base
                  /\ \A shorter \in PositionSizes :
                        shorter < quote.position[1] => With(shorter).bidSize <= sizes.bidSize

-----------------------------------------------------------------------------
(* Part 6: the Quoting Engine's refresh passes and its start() and stop().   *)
(* A pass and a stop() call are suspended while their REST calls are in      *)
(* flight: a pass first while it cancels the orders it found tracked, then   *)
(* while it places its quotes; stop() while it cancels.  The cancel calls of *)
(* one loop are answered together, and so are the place calls of one pass.   *)
(* maker.cancelled holds the orders the exchange cancelled; maker.stopped    *)
(* says that the last stop() returned true and start() was not called since. *)

MaxPasses == 3    \* refresh passes begun in one behaviour

MakerInputs ==
    {q \in QuoteInputs :
        /\ q.orderBook = <<[bestBid |-> 100000, bestAsk |-> 102000,
                            bidVolume |-> 2, askVolume |-> 1]>>
        /\ q.marketData = <<100>>
        /\ q.position = NoData
        /\ q.volatility = NoData
        /\ q.rebalanceStrategy = "passive"
        /\ ~q.layeringEnable}

(* the orders of the symbol in activeOrders *)
SymbolOrders(symbol) == {id \in DOMAIN activeOrders : activeOrders[id].symbol = symbol}

(* the orders resting on the exchange *)
Resting == (1 .. Len(exchangeOrders)) \ maker.cancelled

Without(map, keys) == [k \in DOMAIN map \ keys |-> map[k]]

(* MarketMaker.start.  The REST calls of fetchInitialData are answered       *)
(* within the step; with fetched, getOpenOrders returns the resting orders.  *)
MakerStart(fetched) ==
    /\ maker.stopping = <<>>
    /\ IF maker.isRunning
       THEN UNCHANGED <<maker, activeOrders, apiVars>>
       ELSE /\ \E symbol \in Symbols :
                  InstallApi(subscribe(subscribe(subscribe(api, <<"orderbook">>, <<symbol>>),
                                                 <<"market">>, <<symbol>>),
                                       <<"trade">>, <<symbol>>))
            /\ UNCHANGED <<lastMessageTime, closeTimeouts, lifecycle>>
            /\ activeOrders' =
                  IF fetched
                  THEN [id \in DOMAIN activeOrders \cup Resting |->
                           IF id \in Resting
                           THEN [id |-> id, symbol |-> exchangeOrders[id].request.symbol,
                                 side |-> exchangeOrders[id].request.side,
                                 type |-> exchangeOrders[id].request.type,
                                 price |-> exchangeOrders[id].request.price,
                                 size |-> exchangeOrders[id].request.size]
                           ELSE activeOrders[id]]
                  ELSE activeOrders
            /\ maker' = [maker EXCEPT !.isRunning = TRUE, !.orderRefreshInterval = TRUE,
                                      !.stopped = FALSE]
    /\ UNCHANGED <<gateVars, exchangeOrders, stopLossOrders, restVars, quoteVars, risk, bot>>

(* refreshOrdersForSymbol up to its first REST call *)
BeginPass(symbol) ==
    IF quote.orderBook = NoData \/ quote.marketData = NoData \/ ImbalanceThrows(quote)
    THEN [maker EXCEPT !.begun = @ + 1]
    ELSE [maker EXCEPT
             !.begun = @ + 1,
             !.passes = Append(@, [symbol |-> symbol,
                                   phase |-> IF SymbolOrders(symbol) = {} THEN "place"
                                                                         ELSE "cancel",
                                   replaces |-> SymbolOrders(symbol)])]

(* the callback of orderRefreshInterval: MarketMaker.refreshOrders *)
RefreshOrders(symbol) ==
    /\ maker.orderRefreshInterval
    /\ maker.begun < MaxPasses
    /\ maker' = IF maker.isRunning THEN BeginPass(symbol) ELSE maker
    /\ UNCHANGED <<gateVars, orderVars, apiVars, restVars, quoteVars, risk, bot>>

(* the "orderbook" handler: MarketMaker.checkOrderBookImbalance *)
CheckOrderBookImbalance(symbol) ==
    /\ maker.begun < MaxPasses
    /\ maker' = IF /\ maker.isRunning
                   /\ quote.imbalanceEnable
                   /\ ImbalanceRatio(quote.orderBook[1]).num # 0
                THEN BeginPass(symbol)
                ELSE maker
    /\ UNCHANGED <<gateVars, orderVars, apiVars, restVars, quoteVars, risk, bot>>

(* the cancel calls of cancelOrdersForSymbol are answered *)
PassCancels(i, cancelled) ==
    /\ i \in DOMAIN maker.passes
    /\ maker.passes[i].phase = "cancel"
    /\ activeOrders' = IF cancelled THEN Without(activeOrders, maker.passes[i].replaces)
                                    ELSE activeOrders
    /\ maker' = [maker EXCEPT
                    !.passes[i].phase = "place",
                    !.cancelled = IF cancelled THEN @ \cup maker.passes[i].replaces ELSE @]
    /\ UNCHANGED <<gateVars, exchangeOrders, stopLossOrders, apiVars, restVars, quoteVars,
                   risk, bot>>

(* the place calls of refreshOrdersForSymbol and placeLayeredOrders are answered *)
PassPlaces(i, accepted) ==
    /\ i \in DOMAIN maker.passes
    /\ maker.passes[i].phase = "place"
    /\ LET before == [exchange |-> exchangeOrders, active |-> activeOrders, submitted |-> <<>>]
           after == PlaceFrom(before, maker.passes[i].symbol, Candidates(quote), 1, accepted)
       IN  /\ exchangeOrders' = after.exchange
           /\ activeOrders' = after.active
           /\ maker' = [maker EXCEPT
                           !.passes = SubSeq(@, 1, i - 1) \o SubSeq(@, i + 1, Len(@)),
                           !.lastPlaced =
                               [submitted |-> Len(after.submitted),
                                unreplaced |-> maker.passes[i].replaces \ maker.cancelled]]
    /\ UNCHANGED <<gateVars, stopLossOrders, apiVars, restVars, quoteVars, risk, bot>>

(* what stop() does once cancelAllOrders is through *)
StopEnds(m, a) ==
    /\ \E symbol \in Symbols :
          InstallApi(unsubscribe(unsubscribe(unsubscribe(a, <<"orderbook">>, <<symbol>>),
                                             <<"market">>, <<symbol>>),
                                 <<"trade">>, <<symbol>>))
    /\ UNCHANGED <<lastMessageTime, closeTimeouts, lifecycle>>
    /\ maker' = [m EXCEPT !.isRunning = FALSE, !.stopped = TRUE, !.stopping = <<>>]

(* MarketMaker.stop up to its first REST call *)
MakerStop ==
    /\ maker.stopping = <<>>
    /\ IF ~maker.isRunning
       THEN /\ maker' = [maker EXCEPT !.stopped = TRUE]
            /\ UNCHANGED apiVars
       ELSE LET cleared == [maker EXCEPT !.orderRefreshInterval = FALSE]
                tracked == UNION {SymbolOrders(symbol) : symbol \in Symbols}
            IN  IF tracked = {}
                THEN StopEnds(cleared, api)
                ELSE /\ maker' = [cleared EXCEPT !.stopping = <<[replaces |-> tracked]>>]
                     /\ UNCHANGED apiVars
    /\ UNCHANGED <<gateVars, orderVars, restVars, quoteVars, risk, bot>>

(* the cancel calls of cancelAllOrders are answered, and stop() returns true *)
StopCancels(cancelled) ==
    /\ maker.stopping # <<>>
    /\ activeOrders' = IF cancelled THEN Without(activeOrders, maker.stopping[1].replaces)
                                    ELSE activeOrders
    /\ StopEnds([maker EXCEPT !.cancelled = IF cancelled
                                            THEN @ \cup maker.stopping[1].replaces
                                            ELSE @],
                api)
    /\ UNCHANGED <<gateVars, exchangeOrders, stopLossOrders, restVars, quoteVars, risk, bot>>

InitMaker ==
    /\ config = createDefaultSecurityConfig(walletAddress)
    /\ now = 0
    /\ Fresh
    /\ maker = MarketMaker(maxOpenOrders)
    /\ risk = FreshRisk(0)
    /\ bot = HyperliquidBot(createDefaultBotConfig(walletAddress))
    /\ quote \in MakerInputs

NextMaker ==
    \/ \E fetched \in BOOLEAN : MakerStart(fetched)
    \/ \E symbol \in Symbols : RefreshOrders(symbol)
    \/ \E symbol \in Symbols : CheckOrderBookImbalance(symbol)
    \/ \E i \in 1 .. MaxPasses, cancelled \in BOOLEAN : PassCancels(i, cancelled)
    \/ \E i \in 1 .. MaxPasses, accepted \in BOOLEAN : PassPlaces(i, accepted)
    \/ MakerStop
    \/ \E cancelled \in BOOLEAN : StopCancels(cancelled)

SpecMaker == InitMaker /\ [][NextMaker]_vars

(* the same, with every cancel call accepted by the exchange *)
NextMakerReliable ==
    \/ \E fetched \in BOOLEAN : MakerStart(fetched)
    \/ \E symbol \in Symbols : RefreshOrders(symbol)
    \/ \E symbol \in Symbols : CheckOrderBookImbalance(symbol)
    \/ \E i \in 1 .. MaxPasses : PassCancels(i, TRUE)
    \/ \E i \in 1 .. MaxPasses, accepted \in BOOLEAN : PassPlaces(i, accepted)
    \/ MakerStop
    \/ StopCancels(TRUE)

SpecMakerReliable == InitMaker /\ [][NextMakerReliable]_vars

-----------------------------------------------------------------------------
(* Properties of the refresh passes *)

(* C21: a pass that submits an order does so only after every order that was *)
(* tracked for the symbol when the pass began has been cancelled.            *)
C21_CancelledBeforeReplaced ==
    maker.lastPlaced.submitted > 0 => maker.lastPlaced.unreplaced = {}

(* C22: after stop() has returned true and until start() is called, no order *)
(* of the Quoting Engine is tracked as active or resting on the exchange,    *)
(* and none is submitted.                                                    *)
C22_NothingLeftAfterStop ==
    maker.stopped => (DOMAIN activeOrders = {} /\ Resting = {})

-----------------------------------------------------------------------------
(* Part 7: the Risk Engine (RiskManager), for one symbol.  Prices are in     *)
(* cents and sizes in thousandths, as in Part 2.  A handler runs up to its   *)
(* first REST call; the call is answered in a later step, CallAnswered, and  *)
(* takes effect on the exchange when it is answered.  risk.calls holds the   *)
(* async functions suspended at a REST call, risk.cancelled the orders the   *)
(* exchange cancelled, risk.stops the prices of the stop-loss orders tracked *)
(* since the position was opened, risk.triggers the expiries signalled with  *)
(* "circuit_breaker_triggered", risk.last what the last handler found and    *)
(* began.                                                                    *)

MaxRiskEvents == 3      \* events and timer ticks delivered to the Risk Engine in one behaviour
MaxBreakerEvents == 7   \* the same, where only the circuit breaker is followed

(* createDefaultRiskConfig *)
trailingPercentage == 2
takeProfitPercentage == 10
volatilityThreshold == 100
breakerWindow == 5 * 60 * 1000
cooldownPeriod == 15 * 60 * 1000

RiskPositions ==
    {[symbol |-> "BTC-USDT", size |-> sz, entryPrice |-> 10000] : sz \in {-20, 0, 20, 30}}
TickPrices == {10500, 11000}

PositionId(position) == <<position.symbol, IF position.size > 0 THEN "long" ELSE "short">>

Sign(n) == IF n > 0 THEN 1 ELSE IF n < 0 THEN -1 ELSE 0

RiskCall(fn, phase, keys, request, replaces) ==
    [fn |-> fn, phase |-> phase, keys |-> keys, request |-> request, replaces |-> replaces]

(* a protective order on the side that adds to the position instead of       *)
(* closing it                                                                *)
ClosingRequest_opening(position, type, price, tag) ==
    [symbol |-> position.symbol, side |-> IF position.size > 0 THEN "buy" ELSE "sell",
     type |-> type, price |-> price, size |-> Abs(position.size), clientOrderId |-> tag]

(* the order a protective order request asks for: closing side, full size *)
ClosingRequest(position, type, price, tag) ==
    [symbol |-> position.symbol, side |-> IF position.size > 0 THEN "sell" ELSE "buy",
     type |-> type, price |-> price, size |-> Abs(position.size), clientOrderId |-> tag]

(* RiskManager.setupStopLossAndTakeProfit, setupStopLoss and setupTakeProfit *)
(* up to their api.placeOrder                                                *)
setupStopLossAndTakeProfit(position) ==
    IF position.size = 0 THEN <<>>
    ELSE LET isLong == position.size > 0
             stopPrice == IF isLong
                          THEN ToFixed2(position.entryPrice * (100 - stopLossPercentage))
                          ELSE ToFixed2(position.entryPrice * (100 + stopLossPercentage))
             takeProfitPrice ==
                 IF isLong THEN ToFixed2(position.entryPrice * (100 + takeProfitPercentage))
                           ELSE ToFixed2(position.entryPrice * (100 - takeProfitPercentage))
         IN  <<RiskCall("setupStopLoss", "place", {PositionId(position)},
                        ClosingRequest(position, "stopMarket", stopPrice, "sl"), {}),
               RiskCall("setupTakeProfit", "place", {PositionId(position)},
                        ClosingRequest(position, "limit", takeProfitPrice, "tp"), {})>>

(* newStopPrice of updateTrailingStopLossForPosition, in hundredths of a cent *)
Candidate(position, currentPrice) ==
    IF position.size > 0 THEN currentPrice * (100 - trailingPercentage)
                         ELSE currentPrice * (100 + trailingPercentage)

ShouldUpdate_orEqual(position, currentPrice, stopPrice) ==
    IF position.size > 0 THEN Candidate(position, currentPrice) >= stopPrice * 100
                         ELSE Candidate(position, currentPrice) <= stopPrice * 100

ShouldUpdate(position, currentPrice, stopPrice) ==
    IF position.size > 0 THEN Candidate(position, currentPrice) > stopPrice * 100
                         ELSE Candidate(position, currentPrice) < stopPrice * 100

(* RiskManager.updateTrailingStopLossForPosition up to its api.cancelOrder *)
updateTrailingStopLossForPosition(position, currentPrice) ==
    LET positionId == PositionId(position)
    IN  IF position.size = 0 \/ positionId \notin DOMAIN stopLossOrders THEN <<>>
        ELSE IF ShouldUpdate(position, currentPrice, stopLossOrders[positionId].price)
        THEN <<RiskCall("updateTrailingStopLossForPosition", "cancel", {positionId},
                        ClosingRequest(position, "stopMarket",
                                       ToFixed2(Candidate(position, currentPrice)), "sl"),
                        {stopLossOrders[positionId].id})>>
        ELSE <<>>

BothSides(symbol) == {<<symbol, "long">>, <<symbol, "short">>}

OrderIds(map, keys) == {map[key].id : key \in keys}

(* RiskManager.removeStopLossAndTakeProfit from the point where it reads     *)
(* takeProfitOrders, up to its api.cancelOrder                               *)
RemoveTakeProfit(symbol, takeProfitOrders) ==
    LET keys == BothSides(symbol) \cap DOMAIN takeProfitOrders
    IN  IF keys = {} THEN <<>>
        ELSE <<RiskCall("removeStopLossAndTakeProfit", "profits", keys,
                        <<>>, OrderIds(takeProfitOrders, keys))>>

(* RiskManager.removeStopLossAndTakeProfit up to its first api.cancelOrder *)
removeStopLossAndTakeProfit(symbol) ==
    LET keys == BothSides(symbol) \cap DOMAIN stopLossOrders
    IN  IF keys = {} THEN RemoveTakeProfit(symbol, risk.takeProfitOrders)
        ELSE <<RiskCall("removeStopLossAndTakeProfit", "stops", keys,
                        <<>>, OrderIds(stopLossOrders, keys))>>

(* what handlePositionChange makes of two sizes: "remove", "setup" or "none" *)
PositionChange(prev, position) ==
    IF prev # <<>> /\ prev[1].size = position.size THEN "none"
    ELSE IF position.size = 0 THEN "remove"
    ELSE IF prev = <<>> \/ Sign(prev[1].size) # Sign(position.size) THEN "setup"
    ELSE "none"

(* RiskManager.handlePositionChange, as the "position" handler calls it *)
handlePositionChange(position, prev) ==
    IF PositionChange(prev, position) = "remove"
    THEN removeStopLossAndTakeProfit(position.symbol)
    ELSE IF PositionChange(prev, position) = "setup"
    THEN setupStopLossAndTakeProfit(position)
    ELSE <<>>

TrackedStop ==
    IF risk.positions # <<>> /\ risk.positions[1].size # 0
          /\ PositionId(risk.positions[1]) \in DOMAIN stopLossOrders
    THEN <<stopLossOrders[PositionId(risk.positions[1])].price>>
    ELSE <<>>

(* the "position" handler of RiskManager *)
PositionEvent(position) ==
    /\ risk.events < risk.budget
    /\ LET begun == handlePositionChange(position, risk.positions)
       IN  risk' = [risk EXCEPT
                      !.events = @ + 1,
                      !.positions = <<position>>,
                      !.calls = @ \o begun,
                      !.stops = IF PositionChange(risk.positions, position) = "none"
                                THEN @ ELSE <<>>,
                      !.last = [handler |-> "position", prev |-> risk.positions,
                                price |-> <<>>, stop |-> TrackedStop, begun |-> begun]]
    /\ UNCHANGED <<gateVars, orderVars, apiVars, restVars, quoteVars, maker, bot>>

(* (currentPrice - prevPrice) / prevPrice, in basis points *)
ReturnPct(prevPrice, currentPrice) == ((currentPrice - prevPrice) * 10000) \div prevPrice

RECURSIVE Sum(_)
Sum(s) == IF s = <<>> THEN 0 ELSE Head(s) + Sum(Tail(s))

(* RiskManager.calculateCircuitBreakerVolatility exceeding the threshold:    *)
(* stdDev * sqrt(secondsInYear / (n - 1)) * 100 > volatilityThreshold, with  *)
(* both sides squared and the variance in squared basis points, that is      *)
(* variance * 15768 / 5 > (n - 1) * volatilityThreshold^2: secondsInYear is  *)
(* 31536000                                                                  *)
VolatilityExceeds(priceHistory) ==
    IF Len(priceHistory) < 2 THEN FALSE
    ELSE LET returns == [i \in 1 .. Len(priceHistory) - 1 |->
                            ReturnPct(priceHistory[i].price, priceHistory[i + 1].price)]
             mean == Sum(returns) \div Len(returns)
             squaredDiffs == [i \in DOMAIN returns |-> (returns[i] - mean) * (returns[i] - mean)]
             variance == Sum(squaredDiffs) \div Len(squaredDiffs)
         IN  variance > (5 * Len(returns) * volatilityThreshold * volatilityThreshold)
                           \div 15768

(* RiskManager.updateCircuitBreakerPriceHistory *)
updateCircuitBreakerPriceHistory(circuitBreakers, price) ==
    LET circuitBreaker == IF circuitBreakers = <<>>
                          THEN [triggered |-> FALSE, cooldownUntil |-> 0, priceHistory |-> <<>>]
                          ELSE circuitBreakers[1]
        Recent(point) == point.timestamp >= now - breakerWindow
    IN  <<[circuitBreaker EXCEPT
              !.priceHistory = SelectSeq(Append(@, [timestamp |-> now, price |-> price]),
                                         Recent)]>>

(* in cooldown, as checkCircuitBreaker and isCircuitBreakerActive test it *)
InCooldown(circuitBreakers) ==
    /\ circuitBreakers # <<>>
    /\ circuitBreakers[1].triggered
    /\ now < circuitBreakers[1].cooldownUntil

Triggers_inCooldown(circuitBreakers) ==
    /\ circuitBreakers # <<>>
    /\ VolatilityExceeds(circuitBreakers[1].priceHistory)

(* checkCircuitBreaker marks the breaker triggered *)
Triggers(circuitBreakers) ==
    /\ circuitBreakers # <<>>
    /\ ~InCooldown(circuitBreakers)
    /\ VolatilityExceeds(circuitBreakers[1].priceHistory)

(* RiskManager.checkCircuitBreaker *)
checkCircuitBreaker(circuitBreakers) ==
    IF circuitBreakers = <<>> \/ InCooldown(circuitBreakers) THEN circuitBreakers
    ELSE IF Triggers(circuitBreakers)
    THEN <<[circuitBreakers[1] EXCEPT !.triggered = TRUE,
                                      !.cooldownUntil = now + cooldownPeriod]>>
    ELSE <<[circuitBreakers[1] EXCEPT !.triggered = FALSE]>>

(* RiskManager.isCircuitBreakerActive *)
isCircuitBreakerActive == InCooldown(risk.circuitBreakers)

(* the "market" handler of RiskManager *)
MarketTick(price) ==
    /\ risk.events < risk.budget
    /\ LET begun == IF risk.positions = <<>> THEN <<>>
                    ELSE updateTrailingStopLossForPosition(risk.positions[1], price)
           recorded == updateCircuitBreakerPriceHistory(risk.circuitBreakers, price)
       IN  risk' = [risk EXCEPT
                      !.events = @ + 1,
                      !.marketData = <<price>>,
                      !.circuitBreakers = checkCircuitBreaker(recorded),
                      !.triggers = IF Triggers(recorded) THEN Append(@, now + cooldownPeriod)
                                                         ELSE @,
                      !.calls = @ \o begun,
                      !.last = [handler |-> "market", prev |-> risk.positions,
                                price |-> <<price>>, stop |-> TrackedStop, begun |-> begun]]
    /\ UNCHANGED <<gateVars, orderVars, apiVars, restVars, quoteVars, maker, bot>>

(* the callback of monitorInterval: RiskManager.monitorRisk *)
MonitorRisk ==
    /\ risk.monitorInterval
    /\ risk.events < risk.budget
    /\ LET begun == IF risk.isRunning /\ risk.positions # <<>> /\ risk.marketData # <<>>
                    THEN updateTrailingStopLossForPosition(risk.positions[1],
                                                           risk.marketData[1])
                    ELSE <<>>
       IN  risk' = [risk EXCEPT
                      !.events = @ + 1,
                      !.calls = @ \o begun,
                      !.last = [handler |-> "monitor", prev |-> risk.positions,
                                price |-> risk.marketData, stop |-> TrackedStop,
                                begun |-> begun]]
    /\ UNCHANGED <<gateVars, orderVars, apiVars, restVars, quoteVars, maker, bot>>

(* RiskManager.start; api.getPositions is answered within the step *)
RiskStart(ok, fetched) ==
    /\ risk.events < risk.budget
    /\ IF risk.isRunning \/ ~ok
       THEN risk' = [risk EXCEPT !.events = @ + 1]
       ELSE LET begun == IF fetched = <<>> THEN <<>>
                         ELSE setupStopLossAndTakeProfit(fetched[1])
            IN  risk' = [risk EXCEPT
                           !.events = @ + 1,
                           !.positions = IF fetched = <<>> THEN @ ELSE fetched,
                           !.circuitBreakers =
                               IF fetched = <<>> THEN @
                               ELSE <<[triggered |-> FALSE, cooldownUntil |-> 0,
                                       priceHistory |-> <<>>]>>,
                           !.calls = @ \o begun,
                           !.monitorInterval = TRUE,
                           !.isRunning = TRUE,
                           !.last = [handler |-> "start", prev |-> risk.positions,
                                     price |-> <<>>, stop |-> TrackedStop, begun |-> begun]]
    /\ UNCHANGED <<gateVars, orderVars, apiVars, restVars, quoteVars, maker, bot>>

(* RiskManager.stop *)
RiskStop ==
    /\ risk' = IF risk.isRunning
               THEN [risk EXCEPT !.monitorInterval = FALSE, !.isRunning = FALSE]
               ELSE risk
    /\ UNCHANGED <<gateVars, orderVars, apiVars, restVars, quoteVars, maker, bot>>

Remove(s, i) == SubSeq(s, 1, i - 1) \o SubSeq(s, i + 1, Len(s))

(* the exchange answers the REST call that risk.calls[i] awaits, and the     *)
(* async function runs on to its next REST call or to its end                *)
CallAnswered(i, ok) ==
    /\ i \in DOMAIN risk.calls
    /\ LET call == risk.calls[i]
           id == Len(exchangeOrders) + 1
           order == [id |-> id, symbol |-> call.request.symbol, side |-> call.request.side,
                     type |-> call.request.type, price |-> call.request.price,
                     size |-> call.request.size]
           answered == [risk EXCEPT
                           !.last = [handler |-> "answer", prev |-> risk.positions,
                                     price |-> <<>>, stop |-> TrackedStop, begun |-> <<>>]]
       IN  IF call.phase = "place"
           THEN IF ~ok
                THEN /\ risk' = [answered EXCEPT !.calls = Remove(@, i)]
                     /\ UNCHANGED <<exchangeOrders, stopLossOrders>>
                ELSE /\ exchangeOrders' = placeOrder(exchangeOrders, call.request, now)
                     /\ IF call.fn = "setupTakeProfit"
                        THEN /\ risk' = [answered EXCEPT
                                            !.calls = Remove(@, i),
                                            !.takeProfitOrders =
                                                Put(@, CHOOSE key \in call.keys : TRUE, order)]
                             /\ UNCHANGED stopLossOrders
                        ELSE /\ risk' = [answered EXCEPT
                                            !.calls = Remove(@, i),
                                            !.stops = Append(@, order.price)]
                             /\ stopLossOrders' =
                                   Put(stopLossOrders, CHOOSE key \in call.keys : TRUE, order)
           ELSE IF call.phase = "cancel"
           THEN /\ IF ok
                   THEN /\ risk' = [answered EXCEPT !.calls[i].phase = "place",
                                                    !.cancelled = @ \cup call.replaces]
                        /\ stopLossOrders' = Without(stopLossOrders, call.keys)
                   ELSE /\ risk' = [answered EXCEPT !.calls = Remove(@, i)]
                        /\ UNCHANGED stopLossOrders
                /\ UNCHANGED exchangeOrders
           ELSE IF call.phase = "stops"
           THEN LET next == RemoveTakeProfit(CHOOSE symbol \in Symbols : TRUE,
                                             risk.takeProfitOrders)
                IN  /\ risk' = [answered EXCEPT
                                   !.calls = Remove(@, i) \o next,
                                   !.cancelled = IF ok THEN @ \cup call.replaces ELSE @]
                    /\ stopLossOrders' = Without(stopLossOrders, call.keys)
                    /\ UNCHANGED exchangeOrders
           ELSE /\ risk' = [answered EXCEPT
                               !.calls = Remove(@, i),
                               !.takeProfitOrders = Without(@, call.keys),
                               !.cancelled = IF ok THEN @ \cup call.replaces ELSE @]
                /\ UNCHANGED <<exchangeOrders, stopLossOrders>>
    /\ UNCHANGED <<gateVars, activeOrders, apiVars, restVars, quoteVars, maker, bot>>

(* time passes *)
Elapse(delay) ==
    /\ risk.events < risk.budget
    /\ now' = now + delay
    /\ risk' = [risk EXCEPT !.events = @ + 1]
    /\ UNCHANGED <<config, isRunning, monitorInterval, pendingTransactions,
                   transactionHistory, auditLog, nextId, anomalyDetection, lastCall,
                   tampered, orderVars, apiVars, restVars, quoteVars, maker, bot>>

InitRisk ==
    /\ config = createDefaultSecurityConfig(walletAddress)
    /\ now = BootTime
    /\ Fresh
    /\ maker = MarketMaker(maxOpenOrders)
    /\ quote = <<>>
    /\ risk = FreshRisk(MaxRiskEvents)
    /\ bot = HyperliquidBot(createDefaultBotConfig(walletAddress))

InitBreaker ==
    /\ config = createDefaultSecurityConfig(walletAddress)
    /\ now = BootTime
    /\ Fresh
    /\ maker = MarketMaker(maxOpenOrders)
    /\ quote = <<>>
    /\ risk = FreshRisk(MaxBreakerEvents)
    /\ bot = HyperliquidBot(createDefaultBotConfig(walletAddress))

Fetched == {<<>>, <<[symbol |-> "BTC-USDT", size |-> 20, entryPrice |-> 10000]>>}

(* the Risk Engine with its position events and the REST answers *)
NextRisk ==
    \/ \E ok \in BOOLEAN, fetched \in Fetched : RiskStart(ok, fetched)
    \/ RiskStop
    \/ \E position \in RiskPositions : PositionEvent(position)
    \/ \E i \in 1 .. 2 * MaxRiskEvents, ok \in BOOLEAN : CallAnswered(i, ok)

SpecRisk == InitRisk /\ [][NextRisk]_vars

(* the same, with every REST call accepted by the exchange *)
NextRiskReliable ==
    \/ \E fetched \in Fetched : RiskStart(TRUE, fetched)
    \/ \E position \in RiskPositions : PositionEvent(position)
    \/ \E i \in 1 .. 2 * MaxRiskEvents : CallAnswered(i, TRUE)

SpecRiskReliable == InitRisk /\ [][NextRiskReliable]_vars

(* the first "position" event of a symbol that was flat *)
PositionOpens(position) ==
    /\ risk.positions = <<>>
    /\ position.size # 0
    /\ PositionEvent(position)

(* one position, opened once after a start that found the account flat,     *)
(* under market ticks and monitor ticks                                      *)
NextTrail ==
    \/ RiskStart(TRUE, <<>>)
    \/ \E position \in RiskPositions : PositionOpens(position)
    \/ \E price \in TickPrices : MarketTick(price)
    \/ MonitorRisk
    \/ \E i \in 1 .. 2 * MaxRiskEvents, ok \in BOOLEAN : CallAnswered(i, ok)

SpecTrail == InitRisk /\ [][NextTrail]_vars

BreakerDelays == {breakerWindow \div 2, cooldownPeriod}

(* the circuit breaker under market ticks, as time passes *)
NextBreaker ==
    \/ \E fetched \in Fetched : RiskStart(TRUE, fetched)
    \/ RiskStop
    \/ \E price \in TickPrices : MarketTick(price)
    \/ \E delay \in BreakerDelays : Elapse(delay)

SpecBreaker == InitBreaker /\ [][NextBreaker]_vars

-----------------------------------------------------------------------------
(* Properties of the Risk Engine *)

RECURSIVE NonDecreasing(_)
NonDecreasing(s) ==
    Len(s) < 2 \/ (s[1] <= s[2] /\ NonDecreasing(Tail(s)))

RECURSIVE NonIncreasing(_)
NonIncreasing(s) ==
    Len(s) < 2 \/ (s[1] >= s[2] /\ NonIncreasing(Tail(s)))

(* C23: the stop-loss prices tracked for a long position never decrease, for *)
(* a short position never increase; and a market or monitor tick whose       *)
(* candidate stop is not strictly beyond the tracked stop begins no cancel   *)
(* and no replacement.                                                       *)
C23_StopsOnlyTighten ==
    /\ (risk.positions # <<>> /\ risk.positions[1].size > 0) => NonDecreasing(risk.stops)
    /\ (risk.positions # <<>> /\ risk.positions[1].size < 0) => NonIncreasing(risk.stops)
    /\ (/\ risk.last.handler \in {"market", "monitor"}
        /\ risk.last.stop # <<>>
        /\ risk.last.price # <<>>
        /\ ~ShouldUpdate(risk.last.prev[1], risk.last.price[1], risk.last.stop[1]))
          => risk.last.begun = <<>>

Requests(begun) == [i \in DOMAIN begun |-> begun[i].request]

(* the stop-loss and the take-profit of a position: closing side, full size *)
Protects(requests, position) ==
    /\ Len(requests) = 2
    /\ \E i \in 1 .. 2 : requests[i].type = "stopMarket"
    /\ \E i \in 1 .. 2 : requests[i].type = "limit"
    /\ \A i \in 1 .. 2 :
          /\ requests[i].symbol = position.symbol
          /\ requests[i].side = (IF position.size > 0 THEN "sell" ELSE "buy")
          /\ requests[i].size = Abs(position.size)

Placing(begun) == SelectSeq(begun, LAMBDA call : call.phase = "place")

(* C24: a position event that takes the symbol from flat or unknown to       *)
(* non-flat, or reverses the sign of the position, submits one stop-market   *)
(* stop-loss and one limit take-profit, each on the closing side and for the *)
(* full absolute size; a position event that changes neither flatness nor    *)
(* sign submits nothing.                                                     *)
C24_ProtectedOnOpenOrReverse ==
    risk.last.handler = "position" =>
        LET position == risk.positions[1]
            prev == risk.last.prev
            wasFlat == prev = <<>> \/ prev[1].size = 0
            isFlat == position.size = 0
            reversed == ~wasFlat /\ ~isFlat /\ Sign(prev[1].size) # Sign(position.size)
            placed == Requests(Placing(risk.last.begun))
        IN  /\ ((wasFlat /\ ~isFlat) \/ reversed) => Protects(placed, position)
            /\ (wasFlat = isFlat /\ ~reversed) => placed = <<>>

C24_Witness ==
    /\ risk.last.handler = "position"
    /\ risk.last.prev # <<>>
    /\ risk.last.prev[1].size < 0
    /\ risk.positions[1].size > 0
    /\ Len(risk.last.begun) = 2

(* the orders of the Risk Engine resting on the exchange *)
RiskResting == (1 .. Len(exchangeOrders)) \ risk.cancelled

(* C25: once the position is flat again and no placement or cancellation is  *)
(* in flight, no stop-loss and no take-profit is tracked or resting.         *)
C25_NothingLeftWhenFlat ==
    (risk.positions # <<>> /\ risk.positions[1].size = 0 /\ risk.calls = <<>>)
        => /\ DOMAIN stopLossOrders = {}
           /\ DOMAIN risk.takeProfitOrders = {}
           /\ RiskResting = {}

(* C26: a market tick outside cooldown whose volatility exceeds the          *)
(* threshold marks the breaker triggered with expiry now + cooldownPeriod    *)
(* and signals it; a market tick in cooldown signals nothing and leaves the  *)
(* expiry alone; isCircuitBreakerActive is false once the expiry has passed. *)
C26_BreakerCoolsDown ==
    /\ [][\A price \in TickPrices :
             MarketTick(price) =>
                LET recorded == updateCircuitBreakerPriceHistory(risk.circuitBreakers, price)
                    before == IF risk.circuitBreakers = <<>> THEN 0
                              ELSE risk.circuitBreakers[1].cooldownUntil
                    after == risk'.circuitBreakers[1]
                IN  IF InCooldown(risk.circuitBreakers)
                    THEN /\ risk'.triggers = risk.triggers
                         /\ after.triggered
                         /\ after.cooldownUntil = before
                    ELSE IF VolatilityExceeds(recorded[1].priceHistory)
                    THEN /\ after.triggered
                         /\ after.cooldownUntil = now + cooldownPeriod
                         /\ risk'.triggers = Append(risk.triggers, now + cooldownPeriod)
                    ELSE /\ ~after.triggered
                         /\ risk'.triggers = risk.triggers]_vars
    /\ []((risk.circuitBreakers # <<>> /\ now >= risk.circuitBreakers[1].cooldownUntil)
             => ~isCircuitBreakerActive)

(* C26: triggered, cooled down, and triggered again *)
C26_Witness ==
    /\ Len(risk.triggers) = 2
    /\ isCircuitBreakerActive

-----------------------------------------------------------------------------
(* Part 8: the Orchestrator (HyperliquidBot)                                 *)
(*                                                                           *)
(* start(), stop() and updateConfig() are async: each runs to its next await *)
(* in one step, and every awaited component call is answered in a step of    *)
(* its own, so that timer callbacks can run in between.  The caller awaits   *)
(* one public call before making the next.                                   *)

MaxBotCalls == 4   \* public calls made on the bot in one behaviour

malformedAddress == "0x12"

(* the configurations the bot is constructed with *)
BotConfigs ==
    LET d == createDefaultBotConfig(walletAddress)
    IN  {d, [d EXCEPT !.marketMaking.enabled = FALSE]}

(* the arguments of updateConfig: quoting switched on or off, the optimizer  *)
(* switched off, a drawdown limit of 20%, one of -1%, a malformed address    *)
Partials ==
    {[marketMaking |-> [enabled |-> TRUE]],
     [marketMaking |-> [enabled |-> FALSE]],
     [optimization |-> [enable |-> FALSE]],
     [risk |-> [portfolioLimit |-> [maxTotalExposure |-> 100000, maxDrawdown |-> 20]]],
     [risk |-> [portfolioLimit |-> [maxTotalExposure |-> 100000, maxDrawdown |-> -1]]],
     [wallet |-> [address |-> malformedAddress]]}

(* { ...a, ...b } *)
Spread(a, b) ==
    [k \in DOMAIN a \cup DOMAIN b |-> IF k \in DOMAIN b THEN b[k] ELSE a[k]]

(* the newConfig of updateConfig: every section is the current section with  *)
(* the fields of the update spread over it                                   *)
MergeConfig(current, partial) ==
    [section \in DOMAIN current |->
        IF section \in DOMAIN partial
        THEN Spread(current[section], partial[section])
        ELSE current[section]]

(* whether start() and stop() call the component under this configuration *)
Wanted(botConfig, component) ==
    IF component = "marketMaker" THEN botConfig.marketMaking.enabled
    ELSE IF component = "optimizer" THEN botConfig.optimization.enable
    ELSE TRUE

Index(order, component) == CHOOSE i \in 1 .. Len(order) : order[i] = component

(* the next component after position k that the configuration asks for, or 0 *)
NextIn(order, botConfig, k) ==
    LET later == {i \in k + 1 .. Len(order) : Wanted(botConfig, order[i])}
    IN  IF later = {} THEN 0 ELSE CHOOSE i \in later : \A j \in later : i <= j

BotCalled(b, op, partial) ==
    [b EXCEPT !.calls = @ + 1,
              !.last = [op |-> op, partial |-> partial, before |-> b.config,
                        installed |-> <<>>, wasRunning |-> b.isRunning,
                        result |-> <<>>, restarted |-> FALSE]]

RECURSIVE startBegin(_)
RECURSIVE Finish(_, _)

(* HyperliquidBot.start up to its first component call *)
startBegin(b) ==
    LET entered == [b EXCEPT !.frames = Append(@, [fn |-> "start", pc |-> "security",
                                                   newConfig |-> b.config])]
    IN  IF b.isRunning THEN Finish(entered, TRUE)
        ELSE IF ~b.walletReady THEN Finish(entered, FALSE)
        ELSE [entered EXCEPT !.started = <<>>]

(* the innermost function returns: to the caller of the public call, or      *)
(* into updateConfig, which ignores what stop() and start() returned         *)
Finish(b, result) ==
    LET outer == SubSeq(b.frames, 1, Len(b.frames) - 1)
    IN  IF outer = <<>>
        THEN [b EXCEPT !.frames = <<>>, !.last.result = <<result>>]
        ELSE LET update == outer[Len(outer)]
             IN  IF update.pc = "stop"
                 THEN startBegin([b EXCEPT !.config = update.newConfig,
                                           !.last.installed = <<update.newConfig>>,
                                           !.frames = <<[update EXCEPT !.pc = "start"]>>])
                 ELSE [b EXCEPT !.frames = <<>>,
                                !.last.result = <<TRUE>>,
                                !.last.restarted = b.isRunning]

(* HyperliquidBot.stop up to its first component call *)
stopBegin(b) ==
    LET first == StopOrder[NextIn(StopOrder, b.config, 0)]
        entered == [b EXCEPT !.frames = Append(@, [fn |-> "stop", pc |-> first,
                                                   newConfig |-> b.config])]
    IN  IF ~b.isRunning THEN Finish(entered, TRUE)
        ELSE [entered EXCEPT !.healthCheckInterval = FALSE, !.stopped = <<>>]

(* HyperliquidBot.initialize: WalletManager.initialize derives the           *)
(* encryption key and, the wallet configuration of createWalletManager       *)
(* holding no encrypted credentials, decrypts nothing; api.initialize then   *)
(* succeeds or not                                                           *)
BotInitialize(ok) ==
    /\ bot.frames = <<>>
    /\ bot.calls < MaxBotCalls
    /\ bot' = [BotCalled(bot, "initialize", <<>>) EXCEPT !.encryptionKey = TRUE,
                                                        !.last.result = <<ok>>]
    /\ UNCHANGED <<gateVars, orderVars, apiVars, restVars, quoteVars, maker, risk>>

(* WalletManager.encryptCredentials: the wallet holds credentials from here  *)
(* on.  HyperliquidBot itself never calls it.                                *)
EncryptCredentials ==
    /\ bot.encryptionKey
    /\ ~bot.walletReady
    /\ bot' = [bot EXCEPT !.walletReady = TRUE]
    /\ UNCHANGED <<gateVars, orderVars, apiVars, restVars, quoteVars, maker, risk>>

BotStart ==
    /\ bot.frames = <<>>
    /\ bot.calls < MaxBotCalls
    /\ bot' = startBegin(BotCalled(bot, "start", <<>>))
    /\ UNCHANGED <<gateVars, orderVars, apiVars, restVars, quoteVars, maker, risk>>

BotStop ==
    /\ bot.frames = <<>>
    /\ bot.calls < MaxBotCalls
    /\ bot' = stopBegin(BotCalled(bot, "stop", <<>>))
    /\ UNCHANGED <<gateVars, orderVars, apiVars, restVars, quoteVars, maker, risk>>

(* HyperliquidBot.updateConfig *)
UpdateConfig(partial) ==
    /\ bot.frames = <<>>
    /\ bot.calls < MaxBotCalls
    /\ LET b == BotCalled(bot, "updateConfig", <<partial>>)
           newConfig == MergeConfig(bot.config, partial)
       IN  bot' = IF bot.isRunning
                  THEN stopBegin([b EXCEPT !.frames = <<[fn |-> "updateConfig", pc |-> "stop",
                                                         newConfig |-> newConfig]>>])
                  ELSE [b EXCEPT !.config = newConfig,
                                 !.last.installed = <<newConfig>>,
                                 !.last.result = <<TRUE>>]
    /\ UNCHANGED <<gateVars, orderVars, apiVars, restVars, quoteVars, maker, risk>>

(* the components whose start() awaits the exchange and returns false when   *)
(* that fails; the others only arm a timer                                   *)
Fallible == {"risk", "analytics", "marketMaker"}

(* the component start that start() awaits returns, true or false, and       *)
(* start() runs on to the next component or to its end                       *)
ComponentStarted(ok) ==
    /\ bot.frames # <<>>
    /\ LET frame == bot.frames[Len(bot.frames)]
           component == frame.pc
           next == NextIn(StartOrder, bot.config, Index(StartOrder, component))
           b == [bot EXCEPT
                    !.components[component] =
                        IF ok THEN [isRunning |-> TRUE, interval |-> TRUE] ELSE @,
                    !.started = Append(@, component)]
       IN  /\ frame.fn = "start"
           /\ ok \/ (component \in Fallible /\ ~bot.components[component].isRunning)
           /\ bot' = IF next = 0
                     THEN Finish([b EXCEPT !.healthCheckInterval = TRUE,
                                           !.isRunning = TRUE], TRUE)
                     ELSE [b EXCEPT !.frames[Len(bot.frames)].pc = StartOrder[next]]
    /\ UNCHANGED <<gateVars, orderVars, apiVars, restVars, quoteVars, maker, risk>>

(* the component stop that stop() awaits returns, and stop() runs on *)
ComponentStopped ==
    /\ bot.frames # <<>>
    /\ LET frame == bot.frames[Len(bot.frames)]
           component == frame.pc
           next == NextIn(StopOrder, bot.config, Index(StopOrder, component))
           b == [bot EXCEPT
                    !.components[component] = [isRunning |-> FALSE, interval |-> FALSE],
                    !.stopped = Append(@, component)]
       IN  /\ frame.fn = "stop"
           /\ bot' = IF next = 0
                     THEN Finish([b EXCEPT !.isRunning = FALSE], TRUE)
                     ELSE [b EXCEPT !.frames[Len(bot.frames)].pc = StopOrder[next]]
    /\ UNCHANGED <<gateVars, orderVars, apiVars, restVars, quoteVars, maker, risk>>

(* values the genetic algorithm may find for risk.stopLoss.percentage, one   *)
(* of the optimized parameters: its range is 1 to 10 in steps of 0.5         *)
BestStopLoss == {5, 6}

(* the optimization timer: Optimizer.runOptimization applies its parameters  *)
(* to a copy of its botConfig and emits "config_update", which the bot's     *)
(* listener installs as its configuration                                    *)
OptimizerApplies(best) ==
    /\ bot.components["optimizer"].isRunning
    /\ LET newConfig == [bot.botConfig EXCEPT !.risk.stopLoss.percentage = best]
       IN  /\ bot.config # newConfig
           /\ bot' = [bot EXCEPT !.botConfig = newConfig, !.config = newConfig]
    /\ UNCHANGED <<gateVars, orderVars, apiVars, restVars, quoteVars, maker, risk>>

InitBot ==
    /\ config = createDefaultSecurityConfig(walletAddress)
    /\ now = 0
    /\ Fresh
    /\ maker = MarketMaker(maxOpenOrders)
    /\ quote = <<>>
    /\ risk = FreshRisk(0)
    /\ \E botConfig \in BotConfigs : bot = HyperliquidBot(botConfig)

NextBot ==
    \/ \E ok \in BOOLEAN : BotInitialize(ok)
    \/ EncryptCredentials
    \/ BotStart
    \/ BotStop
    \/ \E partial \in Partials : UpdateConfig(partial)
    \/ \E ok \in BOOLEAN : ComponentStarted(ok)
    \/ ComponentStopped
    \/ \E best \in BestStopLoss : OptimizerApplies(best)

SpecBot == InitBot /\ [][NextBot]_vars

-----------------------------------------------------------------------------
(* Properties of the Orchestrator *)

Reverse(s) == [i \in 1 .. Len(s) |-> s[Len(s) + 1 - i]]

Returned(op) == bot.last.op = op /\ bot.last.result # <<>>

LeftRunning ==
    /\ Returned("stop")
    /\ bot.last.wasRunning
    /\ \E c \in Range(bot.started) : bot.components[c].isRunning

NothingRunning ==
    /\ ~bot.healthCheckInterval
    /\ \A c \in Range(StartOrder) :
          ~bot.components[c].isRunning /\ ~bot.components[c].interval

SectionFor(botConfig, component) ==
    IF component = "marketMaker" THEN botConfig.marketMaking
    ELSE IF component = "risk" THEN botConfig.risk
    ELSE IF component = "optimizer" THEN botConfig.optimization
    ELSE botConfig.security

ValidConfig(botConfig) ==
    /\ botConfig.wallet.address # malformedAddress
    /\ botConfig.risk.portfolioLimit.maxDrawdown \in 0 .. 100

(* C30: updateConfig with an out-of-range parameter or a malformed wallet    *)
(* address returns false and leaves the configuration as it was.             *)
C30_InvalidConfigRejected ==
    (/\ Returned("updateConfig")
     /\ ~ValidConfig(MergeConfig(bot.last.before, bot.last.partial[1])))
        => /\ bot.last.result = <<FALSE>>
           /\ bot.config = bot.last.before

-----------------------------------------------------------------------------
(* Part 9: the Ledger (PerformanceAnalytics)                                 *)
(*                                                                           *)
(* A clientOrderId is the sequence of the pieces that the code joins with    *)
(* "-": MarketMaker.placeLimitOrder writes mm-<Date.now()>-<random>, the     *)
(* Risk Engine sl-<Date.now()> and tp-<Date.now()>.  Prices are in cents,    *)
(* sizes in thousandths.                                                     *)

MaxFills == 3   \* "order" events with status filled in one behaviour

(* `${prefix}-${timestamp}-${random}` *)
ClientOrderId(prefix, timestamp, random) == <<prefix, timestamp, random>>

(* clientId.split("-")[0] *)
BaseId(clientId) == <<Head(clientId)>>

(* the filled orders the exchange reports: quotes of two refresh passes, and *)
(* an order placed by hand, which has no clientOrderId                       *)
FilledOrders ==
    {[id |-> <<id>>, symbol |-> "BTC-USDT", side |-> side, avgFillPrice |-> price,
      filledSize |-> 10, clientOrderId |-> clientOrderId] :
        id \in {"41"}, side \in {"buy", "sell"}, price \in {10000, 10100},
        clientOrderId \in {<<ClientOrderId("mm", 1000, 5)>>,
                           <<ClientOrderId("mm", 2000, 7)>>,
                           <<>>}}

(* order.clientOrderId || order.id *)
ClientId(order) ==
    IF order.clientOrderId # <<>> THEN order.clientOrderId[1] ELSE order.id

(* the orderGroups of updateWinLossStatistics: base id -> orders, in the     *)
(* order of filledOrders                                                     *)
OrderGroups(symbolOrders) ==
    LET baseIds == {BaseId(ClientId(symbolOrders[i])) : i \in DOMAIN symbolOrders}
    IN  [baseId \in baseIds |->
            SelectSeq(symbolOrders, LAMBDA order : BaseId(ClientId(order)) = baseId)]

(* the pnl loop of updateWinLossStatistics *)
RECURSIVE GroupPnl(_)
GroupPnl(orders) ==
    IF orders = <<>> THEN 0
    ELSE LET order == Head(orders)
             amount == order.avgFillPrice * order.filledSize
         IN  (IF order.side = "buy" THEN -amount ELSE amount) + GroupPnl(Tail(orders))

RECURSIVE SumOver(_, _)
SumOver(f, S) ==
    IF S = {} THEN 0
    ELSE LET x == CHOOSE x \in S : TRUE IN f[x] + SumOver(f, S \ {x})

(* PerformanceAnalytics.updateWinLossStatistics *)
updateWinLossStatistics(analytics, symbol) ==
    LET symbolOrders == SelectSeq(analytics.filledOrders,
                                  LAMBDA order : order.symbol = symbol)
        orderGroups == OrderGroups(symbolOrders)
        complete == {baseId \in DOMAIN orderGroups : Len(orderGroups[baseId]) >= 2}
        pnl == [baseId \in complete |-> GroupPnl(orderGroups[baseId])]
        wins == {baseId \in complete : pnl[baseId] > 0}
        losses == {baseId \in complete : pnl[baseId] < 0}
    IN  IF symbolOrders = <<>> THEN analytics
        ELSE [analytics EXCEPT
                 !.orderGroups = orderGroups,
                 !.trades = [winCount |-> Cardinality(wins),
                             lossCount |-> Cardinality(losses),
                             totalProfit |-> SumOver(pnl, wins),
                             totalLoss |-> SumOver([b \in losses |-> -pnl[b]], losses)]]

(* the "order" handler of PerformanceAnalytics for a filled order *)
OrderFilled(order) ==
    /\ Len(bot.analytics.filledOrders) < MaxFills
    /\ bot' = [bot EXCEPT
                  !.analytics = updateWinLossStatistics(
                                    [@ EXCEPT !.filledOrders = Append(@, order)],
                                    order.symbol)]
    /\ UNCHANGED <<gateVars, orderVars, apiVars, restVars, quoteVars, maker, risk>>

NextLedger == \E order \in FilledOrders : OrderFilled(order)

SpecLedger == InitBot /\ [][NextLedger]_vars

(* C31: the orders of one group all carry the same correlation id, and the   *)
(* PnL of a group with a buy and a sell is the fill value of its sells minus *)
(* the fill value of its buys.                                               *)
C31_GroupedByCorrelationId ==
    \A baseId \in DOMAIN bot.analytics.orderGroups :
        LET orders == bot.analytics.orderGroups[baseId]
            Value(side) ==
                LET of == SelectSeq(orders, LAMBDA order : order.side = side)
                IN  SumOver([i \in DOMAIN of |-> of[i].avgFillPrice * of[i].filledSize],
                            DOMAIN of)
        IN  /\ \A i, j \in DOMAIN orders : ClientId(orders[i]) = ClientId(orders[j])
            /\ GroupPnl(orders) = Value("sell") - Value("buy")

-----------------------------------------------------------------------------
(* More properties of the refresh passes *)

(* the orders of one side resting on the exchange for the symbol *)
RestingOn(symbol, side) ==
    {id \in Resting : /\ exchangeOrders[id].request.symbol = symbol
                      /\ exchangeOrders[id].request.side = side}

(* C32: for one symbol at most one refresh pass is in progress, and with     *)
(* layering off at most one bid and one ask of the symbol rest on the        *)
(* exchange.                                                                 *)
C32_OnePassPerSymbol ==
    \A symbol \in Symbols :
        /\ Cardinality({i \in DOMAIN maker.passes : maker.passes[i].symbol = symbol}) <= 1
        /\ Cardinality(RestingOn(symbol, "buy")) <= 1
        /\ Cardinality(RestingOn(symbol, "sell")) <= 1

(* two bids of the symbol rest on the exchange although every cancel call    *)
(* was accepted                                                              *)
TwoBidsResting == \E symbol \in Symbols : Cardinality(RestingOn(symbol, "buy")) >= 2

-----------------------------------------------------------------------------
(* Part 10: the orders the Quoting Engine tracks.  The gateway emits "order" *)
(* for every order message of the account, whichever engine placed the       *)
(* order.  maker.terminal holds the orders for which a terminal status has   *)
(* been delivered to the Quoting Engine; the events of one order arrive in   *)
(* the order of its life, so no other status follows a terminal one.         *)

MaxOrderEvents == 2    \* "order" events delivered in one behaviour
MaxSharedEvents == 2   \* events of the Risk Engine next to the Quoting Engine

OrderStatuses == {"new", "partiallyFilled", "filled", "canceled"}
TerminalStatuses == {"filled", "canceled", "rejected", "expired"}

AsOrder(id) ==
    [id |-> id, symbol |-> exchangeOrders[id].request.symbol,
     side |-> exchangeOrders[id].request.side, type |-> exchangeOrders[id].request.type,
     price |-> exchangeOrders[id].request.price, size |-> exchangeOrders[id].request.size]

(* the "order" handler of the MarketMaker *)
OrderEvent(id, status) ==
    /\ maker.events < MaxOrderEvents
    /\ id \in 1 .. Len(exchangeOrders)
    /\ status \notin TerminalStatuses => id \notin maker.terminal \cup maker.cancelled
    /\ status = "canceled" <=> id \in maker.cancelled \cup risk.cancelled
    /\ activeOrders' = IF status \in TerminalStatuses
                       THEN Without(activeOrders, {id})
                       ELSE Put(activeOrders, id, AsOrder(id))
    /\ maker' = [maker EXCEPT !.events = @ + 1,
                              !.terminal = IF status \in TerminalStatuses
                                           THEN @ \cup {id} ELSE @]
    /\ UNCHANGED <<gateVars, exchangeOrders, stopLossOrders, apiVars, restVars, quoteVars,
                   risk, bot>>

InitShared ==
    /\ config = createDefaultSecurityConfig(walletAddress)
    /\ now = BootTime
    /\ Fresh
    /\ maker = MarketMaker(maxOpenOrders)
    /\ quote \in MakerInputs
    /\ risk = FreshRisk(MaxSharedEvents)
    /\ bot = HyperliquidBot(createDefaultBotConfig(walletAddress))

(* the two engines on one account, with every REST call accepted *)
NextShared ==
    \/ RiskStart(TRUE, <<>>)
    \/ \E position \in RiskPositions : PositionOpens(position)
    \/ \E i \in 1 .. 2 * MaxSharedEvents : CallAnswered(i, TRUE)
    \/ \E fetched \in BOOLEAN : MakerStart(fetched)
    \/ \E symbol \in Symbols : RefreshOrders(symbol)
    \/ \E i \in 1 .. MaxPasses : PassCancels(i, TRUE)
    \/ \E i \in 1 .. MaxPasses : PassPlaces(i, TRUE)
    \/ MakerStop
    \/ StopCancels(TRUE)

SpecShared == InitShared /\ [][NextShared]_vars

(* the orders on the exchange that the Risk Engine placed *)
RiskOrders ==
    {id \in 1 .. Len(exchangeOrders) : exchangeOrders[id].request.clientOrderId \in {"sl", "tp"}}

(* C33: a stop-loss or take-profit order placed by the Risk Engine is never  *)
(* tracked as a quote by the Quoting Engine and never cancelled by a refresh *)
(* pass or by MarketMaker.stop.                                              *)
C33_RiskOrdersLeftAlone ==
    /\ RiskOrders \cap DOMAIN activeOrders = {}
    /\ RiskOrders \cap maker.cancelled = {}

(* a stop-loss of the Risk Engine has been cancelled by the Quoting Engine   *)
(* and the Risk Engine still tracks it                                       *)
StopCancelledByMaker ==
    \E key \in DOMAIN stopLossOrders : stopLossOrders[key].id \in maker.cancelled

-----------------------------------------------------------------------------
(* The refresh pass with each placeLimitOrder call suspended at its await:   *)
(* the exchange creates the order in one step and the response reaches       *)
(* placeLimitOrder in a later one.  A pass in maker.passes holds the orders  *)
(* it computed when it began and is at its cancel calls or at the            *)
(* placeLimitOrder call for orders[leg]; id is the order the exchange        *)
(* created for that call, 0 while it has not.                                *)

MakerCaps == {1, 2}    \* orders.maxOpenOrders of the configurations explored
MaxTracked == 2        \* refresh passes begun in one behaviour

ReplaceAt(seq, i, by) == SubSeq(seq, 1, i - 1) \o by \o SubSeq(seq, i + 1, Len(seq))

(* the pass goes on to its placeLimitOrder calls from orders[leg] on, up to  *)
(* the first call that reaches api.placeOrder                                *)
Enter(pass, leg, active) ==
    LET orders == pass.orders
        symbolOrders == {id \in DOMAIN active : active[id].symbol = pass.symbol}
        \* the calls that get past the size check of refreshOrdersForSymbol
        called == {k \in leg .. Len(orders) : orders[k].size >= minOrderSize}
    IN  IF called = {} \/ Cardinality(symbolOrders) >= maker.maxOpenOrders
        THEN <<>>
        ELSE <<[pass EXCEPT !.phase = "place", !.id = 0,
                            !.leg = CHOOSE k \in called : \A l \in called : k <= l]>>

(* the callback of orderRefreshInterval, up to the first REST call *)
TrackedRefresh(symbol) ==
    /\ maker.orderRefreshInterval
    /\ maker.begun < MaxTracked
    /\ LET pass == [symbol |-> symbol, phase |-> "cancel", orders |-> Candidates(quote),
                    replaces |-> SymbolOrders(symbol), leg |-> 0, id |-> 0]
       IN  maker' = IF ~maker.isRunning THEN maker
                    ELSE IF quote.orderBook = NoData \/ quote.marketData = NoData
                            \/ ImbalanceThrows(quote)
                    THEN [maker EXCEPT !.begun = @ + 1]
                    ELSE [maker EXCEPT
                             !.begun = @ + 1,
                             !.passes = @ \o (IF pass.replaces # {} THEN <<pass>>
                                              ELSE Enter(pass, 1, activeOrders))]
    /\ UNCHANGED <<gateVars, orderVars, apiVars, restVars, quoteVars, risk, bot>>

(* the cancel calls of cancelOrdersForSymbol are answered *)
CancelsAnswered(i, cancelled) ==
    /\ i \in DOMAIN maker.passes
    /\ maker.passes[i].phase = "cancel"
    /\ LET active == IF cancelled THEN Without(activeOrders, maker.passes[i].replaces)
                                  ELSE activeOrders
       IN  /\ activeOrders' = active
           /\ maker' = [maker EXCEPT
                           !.passes = ReplaceAt(@, i, Enter(maker.passes[i], 1, active)),
                           !.cancelled = IF cancelled THEN @ \cup maker.passes[i].replaces
                                                      ELSE @]
    /\ UNCHANGED <<gateVars, exchangeOrders, stopLossOrders, apiVars, restVars, quoteVars,
                   risk, bot>>

(* the exchange takes the request of api.placeOrder: it creates the order,   *)
(* or it rejects the request and placeLimitOrder returns undefined           *)
ExchangeCreates(i, accepted) ==
    /\ i \in DOMAIN maker.passes
    /\ maker.passes[i].phase = "place"
    /\ maker.passes[i].id = 0
    /\ LET pass == maker.passes[i]
           order == pass.orders[pass.leg]
           request == [symbol |-> pass.symbol, side |-> order.side, type |-> "limit",
                       price |-> order.price, size |-> order.size, clientOrderId |-> "mm"]
       IN  IF accepted
           THEN /\ exchangeOrders' = placeOrder(exchangeOrders, request, now)
                /\ maker' = [maker EXCEPT !.passes[i].id = Len(exchangeOrders) + 1]
           ELSE /\ maker' = [maker EXCEPT
                                !.passes = ReplaceAt(@, i, Enter(pass, pass.leg + 1,
                                                                 activeOrders))]
                /\ UNCHANGED exchangeOrders
    /\ UNCHANGED <<gateVars, activeOrders, stopLossOrders, apiVars, restVars, quoteVars,
                   risk, bot>>

(* the response of api.placeOrder reaches placeLimitOrder *)
PlaceResumes(i) ==
    /\ i \in DOMAIN maker.passes
    /\ maker.passes[i].phase = "place"
    /\ maker.passes[i].id # 0
    /\ LET pass == maker.passes[i]
           active == Put(activeOrders, pass.id, AsOrder(pass.id))
       IN  /\ activeOrders' = active
           /\ maker' = [maker EXCEPT
                           !.passes = ReplaceAt(@, i, Enter(pass, pass.leg + 1, active))]
    /\ UNCHANGED <<gateVars, exchangeOrders, stopLossOrders, apiVars, restVars, quoteVars,
                   risk, bot>>

InitTracking ==
    /\ config = createDefaultSecurityConfig(walletAddress)
    /\ now = 0
    /\ Fresh
    /\ \E cap \in MakerCaps : maker = MarketMaker(cap)
    /\ risk = FreshRisk(0)
    /\ bot = HyperliquidBot(createDefaultBotConfig(walletAddress))
    /\ quote \in MakerInputs

NextTracking ==
    \/ \E fetched \in BOOLEAN : MakerStart(fetched)
    \/ \E symbol \in Symbols : TrackedRefresh(symbol)
    \/ \E i \in 1 .. MaxTracked, cancelled \in BOOLEAN : CancelsAnswered(i, cancelled)
    \/ \E i \in 1 .. MaxTracked, accepted \in BOOLEAN : ExchangeCreates(i, accepted)
    \/ \E i \in 1 .. MaxTracked : PlaceResumes(i)
    \/ \E id \in 1 .. 2 * MaxTracked, status \in OrderStatuses : OrderEvent(id, status)

SpecTracking == InitTracking /\ [][NextTracking]_vars

(* C34: the number of orders tracked as active for a symbol never exceeds    *)
(* the configured maxOpenOrders.                                             *)
C34_TrackedWithinMaxOpenOrders ==
    \A symbol \in Symbols : Cardinality(SymbolOrders(symbol)) <= maker.maxOpenOrders

(* C35: an order for which a terminal status event has been received is not *)
(* tracked as active afterwards.                                             *)
C35_TerminalNeverTrackedAgain == maker.terminal \cap DOMAIN activeOrders = {}

-----------------------------------------------------------------------------
(* More properties of the Risk Engine *)

(* the same as NextTrail, with every REST call accepted by the exchange *)
NextTrailReliable ==
    \/ RiskStart(TRUE, <<>>)
    \/ \E position \in RiskPositions : PositionOpens(position)
    \/ \E price \in TickPrices : MarketTick(price)
    \/ MonitorRisk
    \/ \E i \in 1 .. 2 * MaxRiskEvents : CallAnswered(i, TRUE)

SpecTrailReliable == InitRisk /\ [][NextTrailReliable]_vars

(* the stop-loss orders of the Risk Engine that rest on the exchange *)
LiveStops ==
    {id \in RiskResting : exchangeOrders[id].request.clientOrderId = "sl"}

(* C36: at most one stop-loss order rests on the exchange for the position,  *)
(* and it is the one the Risk Engine tracks in stopLossOrders.               *)
C36_OneLiveStopAndTracked ==
    /\ Cardinality(LiveStops) <= 1
    /\ \A id \in LiveStops : \E key \in DOMAIN stopLossOrders : stopLossOrders[key].id = id

(* the stop-loss and take-profit orders the Risk Engine tracks *)
TrackedProtection ==
    {stopLossOrders[key] : key \in DOMAIN stopLossOrders}
        \cup {risk.takeProfitOrders[key] : key \in DOMAIN risk.takeProfitOrders}

(* C37: when no operation of the Risk Engine is in flight and the position   *)
(* is not flat, every tracked stop-loss and take-profit order is on the side *)
(* that closes the position and has the absolute size of the position.       *)
C37_ProtectionMatchesPosition ==
    (risk.calls = <<>> /\ risk.positions # <<>> /\ risk.positions[1].size # 0)
        => \A order \in TrackedProtection :
              /\ order.side = (IF risk.positions[1].size > 0 THEN "sell" ELSE "buy")
              /\ order.size = Abs(risk.positions[1].size)

(* the Risk Engine started and stopped, under position events and market     *)
(* ticks, with every REST call accepted by the exchange                      *)
NextRiskIdle ==
    \/ \E fetched \in Fetched : RiskStart(TRUE, fetched)
    \/ RiskStop
    \/ \E position \in RiskPositions : PositionEvent(position)
    \/ \E price \in TickPrices : MarketTick(price)
    \/ \E i \in 1 .. 2 * MaxRiskEvents : CallAnswered(i, TRUE)

SpecRiskIdle == InitRisk /\ [][NextRiskIdle]_vars

(* C38: a position event or a market event handled while the Risk Engine is *)
(* not running begins no placeOrder and no cancelOrder call.                 *)
C38_SilentWhenNotRunning ==
    (~risk.isRunning /\ risk.last.handler \in {"position", "market"})
        => risk.last.begun = <<>>

(* the Risk Engine was started and stopped, and a market event handled       *)
(* afterwards began a cancelOrder call                                       *)
CancelsAfterStop ==
    /\ ~risk.isRunning
    /\ risk.positions # <<>>
    /\ risk.last.handler = "market"
    /\ \E i \in DOMAIN risk.last.begun : risk.last.begun[i].phase = "cancel"

-----------------------------------------------------------------------------
(* More properties of the Orchestrator *)

(* a configuration with the optimized parameters it models blanked *)
ButOptimized(c) ==
    [c EXCEPT !.risk.stopLoss.percentage = 0, !.risk.takeProfit.percentage = 0]

-----------------------------------------------------------------------------
(* Part 11: Optimizer.runGeneticAlgorithm.  Math.floor(Math.random() * n) is *)
(* a choice from 0 .. n - 1.  One step runs the function up to its next draw *)
(* or loop test.                                                             *)

MaxPopulation == 5     \* largest geneticAlgorithm.populationSize explored
MaxGenerations == 2    \* largest geneticAlgorithm.generations explored

Draws(n) == 0 .. n - 1

GeneticStep(next) ==
    /\ bot' = [bot EXCEPT !.genetic = next]
    /\ UNCHANGED <<gateVars, orderVars, apiVars, restVars, quoteVars, maker, risk>>

(* runGeneticAlgorithm up to its loop over the generations: the initial      *)
(* population has one individual for the best parameters and one for every   *)
(* i from 1 below populationSize                                             *)
RunGeneticAlgorithm ==
    /\ bot.genetic.pc = "idle"
    /\ GeneticStep([bot.genetic EXCEPT !.pc = "generation", !.gen = 0,
                                       !.population = bot.genetic.populationSize])

(* the test of the loop over the generations, and the start of selectParents *)
Generation ==
    /\ bot.genetic.pc = "generation"
    /\ GeneticStep(IF bot.genetic.gen < bot.genetic.generations
                   THEN [bot.genetic EXCEPT !.pc = "selectParents", !.i = 0,
                                            !.parents = 0, !.offspring = 0]
                   ELSE [bot.genetic EXCEPT !.pc = "done"])

(* the test of the tournament loop and the two draws of one iteration *)
SelectParents(d1, d2) ==
    /\ bot.genetic.pc = "selectParents"
    /\ d1 \in Draws(bot.genetic.population)
    /\ d2 \in Draws(bot.genetic.population)
    /\ GeneticStep(IF bot.genetic.i < bot.genetic.population \div 2
                   THEN [bot.genetic EXCEPT !.pc = "tournament", !.idx1 = d1, !.idx2 = d2]
                   ELSE [bot.genetic EXCEPT !.pc = "createOffspring", !.i = 0,
                                            !.idx1 = 0, !.idx2 = 0])

(* while (idx2 === idx1) in selectParents: draw again, or push the winner *)
Tournament(d) ==
    /\ bot.genetic.pc = "tournament"
    /\ d \in Draws(bot.genetic.population)
    /\ GeneticStep(IF bot.genetic.idx2 = bot.genetic.idx1
                   THEN [bot.genetic EXCEPT !.idx2 = d]
                   ELSE [bot.genetic EXCEPT !.pc = "selectParents", !.i = @ + 1,
                                            !.parents = @ + 1, !.idx1 = 0, !.idx2 = 0])

(* the test of the loop of createOffspring and the two draws of one          *)
(* iteration; after the loop, selectSurvivors keeps population.length        *)
(* individuals                                                               *)
CreateOffspring(d1, d2) ==
    /\ bot.genetic.pc = "createOffspring"
    /\ IF bot.genetic.i < bot.genetic.parents
       THEN /\ d1 \in Draws(bot.genetic.parents)
            /\ d2 \in Draws(bot.genetic.parents)
            /\ GeneticStep([bot.genetic EXCEPT !.pc = "parents", !.idx1 = d1, !.idx2 = d2])
       ELSE /\ d1 = 0
            /\ d2 = 0
            /\ GeneticStep([bot.genetic EXCEPT !.pc = "generation", !.gen = @ + 1, !.i = 0])

(* while (parentIdx2 === parentIdx1) in createOffspring: draw again, or push *)
(* the child                                                                 *)
Parents(d) ==
    /\ bot.genetic.pc = "parents"
    /\ d \in Draws(bot.genetic.parents)
    /\ GeneticStep(IF bot.genetic.idx2 = bot.genetic.idx1
                   THEN [bot.genetic EXCEPT !.idx2 = d]
                   ELSE [bot.genetic EXCEPT !.pc = "createOffspring", !.i = @ + 1,
                                            !.offspring = @ + 1, !.idx1 = 0, !.idx2 = 0])

InitGenetic ==
    /\ config = createDefaultSecurityConfig(walletAddress)
    /\ now = 0
    /\ Fresh
    /\ maker = MarketMaker(maxOpenOrders)
    /\ risk = FreshRisk(0)
    /\ quote = <<>>
    /\ \E populationSize \in 1 .. MaxPopulation, generations \in 0 .. MaxGenerations :
          bot = [HyperliquidBot(createDefaultBotConfig(walletAddress))
                    EXCEPT !.genetic = Genetic(populationSize, generations)]

NextGenetic ==
    \/ RunGeneticAlgorithm
    \/ Generation
    \/ \E d1, d2 \in Draws(MaxPopulation) : SelectParents(d1, d2)
    \/ \E d \in Draws(MaxPopulation) : Tournament(d)
    \/ \E d1, d2 \in Draws(MaxPopulation) : CreateOffspring(d1, d2)
    \/ \E d \in Draws(MaxPopulation) : Parents(d)

(* a draw that differs from the first one, which has a positive probability  *)
(* whenever there are two values to draw from                                *)
DrawsAnother ==
    \E d \in Draws(MaxPopulation) : d # bot.genetic.idx1 /\ (Tournament(d) \/ Parents(d))

(* the function runs on, and a loop that draws again does not draw the same  *)
(* value forever when it can draw another                                    *)
SpecGenetic ==
    InitGenetic /\ [][NextGenetic]_vars /\ WF_vars(NextGenetic) /\ SF_vars(DrawsAnother)

(* C40: runGeneticAlgorithm terminates, for every populationSize from 1 and  *)
(* every number of generations from 0.                                       *)
C40_GeneticAlgorithmTerminates == <>(bot.genetic.pc = "done")

(* createOffspring is at its second draw with one parent to draw from *)
OneParentToDrawFrom ==
    /\ bot.genetic.pc = "parents"
    /\ bot.genetic.parents = 1
    /\ bot.genetic.idx2 = bot.genetic.idx1

====
